---- MODULE Spec2Model ----
(***************************************************************************)
(* Model of JrSkeletalMergingLibrary.cpp: the FMergedBoneHierarchy helper, *)
(* UJrSkeletalMergingLibrary::MergeSkeletons and the SaveMerge* wrappers.  *)
(*                                                                         *)
(* Hash values are modelled collision-free: a 32-bit hash is a sequence of *)
(* strings in prefix notation, 0 is <<"0">>, GetTypeHash(Name) is <<Name>> *)
(* and HashCombine(A, B) is <<"C">> \o A \o B.  Indices are the C++ ones   *)
(* (0-based, INDEX_NONE = -1); TLA+ sequences are read at Index + 1.       *)
(* A fatal check(), a null dereference and the dereference of a garbage    *)
(* pointer end the call in pc = "Crashed".                                 *)
(***************************************************************************)
EXTENDS Integers, Sequences, FiniteSets, TLC

VARIABLES
    entry,                  \* the entry point that was called
    pc,                     \* position of the call
    Params,                 \* FSkeletonMergeParams
    SkeletalNodes,          \* TArray<USCS_Node*> handed to MergeSkeletons
    PathIsValid,            \* TryConvertFilenameToLongPackageName succeeds
    MeshesToMerge,          \* FSkeletalMeshMergeParams.MeshesToMerge
    MeshParams,             \* FSkeletalMeshMergeParams: Skeleton, bSkeletonBefore
    Assets,                 \* the UObjects: the source assets and those created
    ToMergeSkeletons,       \* MergeSkeletons: unique skeletons
    SkeletonIndex,          \* MergeSkeletons: outer loop index
    BoneIndex,              \* MergeSkeletons: inner loop index
    bMergeSkeletonsFailed,
    bConflictivePoseFound,
    BoneNamesToPathHash,
    BoneNamesToBonePose,
    HashToSockets,
    HashToVirtualBones,
    UniqueCurveNames,
    GroupToSlotNames,
    UniqueBlendProfiles,
    MergedBoneHierarchy,    \* FMergedBoneHierarchy: the three maps
    GeneratedSkeleton,      \* the skeleton object under construction
    ResultMesh,             \* what the merge returned
    PackageCreated,         \* CreatePackage was called
    SavePackageCalls,       \* number of UPackage::SavePackage calls
    AddBoneCalls,           \* number of AddBone calls of the direct driver
    Log,                    \* the UE_LOG lines of MergeSkeletons
    PathKeys,               \* history: the path hash given to each bone (line 948)
    ActorClass,             \* GetSkeletalMeshByClass: the class handed over
    SkelMeshes              \* GetSkeletalMeshByClass: the returned components

vars == <<entry, pc, Params, SkeletalNodes, PathIsValid, MeshesToMerge, MeshParams,
                   Assets,
          ToMergeSkeletons, SkeletonIndex, BoneIndex, bMergeSkeletonsFailed,
          bConflictivePoseFound, BoneNamesToPathHash, BoneNamesToBonePose,
          HashToSockets, HashToVirtualBones, UniqueCurveNames,
          GroupToSlotNames, UniqueBlendProfiles, MergedBoneHierarchy, GeneratedSkeleton, ResultMesh,
          PackageCreated, SavePackageCalls, AddBoneCalls, Log, PathKeys,
          ActorClass, SkelMeshes>>

--------------------------------------------------------------------------
(* Bounds *)

MaxSources == 2
MaxAddBone == 4

--------------------------------------------------------------------------
(* Engine primitives used by the source *)

INDEX_NONE == -1

NAME_None == "None"

Zero == <<"0">>

GetTypeHash(Name) == <<Name>>

HashCombine(A, B) == <<"C">> \o A \o B

\* FString operator/ (path append) with a non-empty left side without slash
PathAppend(Str, Rhs) == Str \o "/" \o Rhs

IsNone(Name) == Name = NAME_None

EmptyMap == <<>>

MapAdd(M, K, V) == [x \in (DOMAIN M) \cup {K} |-> IF x = K THEN V ELSE M[x]]

Contains(Seq_, X) == \E i \in 1..Len(Seq_) : Seq_[i] = X

\* TArray::AddUnique / TSet::Add, keeping insertion order
AddUnique(Seq_, X) == IF Contains(Seq_, X) THEN Seq_ ELSE Append(Seq_, X)

\* FTransform as symbolic location / rotation / scale
Transform(L, R, S) == [Location |-> L, Rotation |-> R, Scale |-> S]

TransformPosition(T, V) == "(" \o T.Location \o "+" \o T.Rotation \o "*" \o V \o ")"

TransformRotation(T, Q) == "(" \o T.Rotation \o "*" \o Q \o ")"

--------------------------------------------------------------------------
(* FReferenceSkeleton / FReferenceSkeletonModifier *)

NullSkeleton ==
    [valid |-> FALSE, crashed |-> FALSE, Bones |-> <<>>, Sockets |-> <<>>,
     VirtualBones |-> <<>>, Curves |-> <<>>, SlotGroups |-> <<>>, BlendProfiles |-> <<>>]

NewSkeleton == [NullSkeleton EXCEPT !.valid = TRUE]

\* FindBoneIndex over a list of records with a Name field: C++ index or INDEX_NONE
FindBoneIndex(Bones, Name) ==
    IF \E i \in 1..Len(Bones) : Bones[i].Name = Name
    THEN (CHOOSE i \in 1..Len(Bones) :
              /\ Bones[i].Name = Name
              /\ \A j \in 1..(i - 1) : Bones[j].Name # Name) - 1
    ELSE INDEX_NONE

\* SkeletonModifier.Add(BoneInfo, Pose): the engine check()s that the name is new
ModifierAdd(Sk, Name, ParentIndex, Pose) ==
    IF Sk.crashed THEN Sk
    ELSE IF FindBoneIndex(Sk.Bones, Name) # INDEX_NONE
         THEN [Sk EXCEPT !.crashed = TRUE]
         ELSE [Sk EXCEPT !.Bones = Append(@,
                  [Name |-> Name, ParentIndex |-> ParentIndex, Pose |-> Pose])]

--------------------------------------------------------------------------
(* FMergedBoneHierarchy *)

EmptyHierarchy ==
    [BoneNamePose |-> EmptyMap, PathToBoneNames |-> EmptyMap, PathHashToBoneNames |-> EmptyMap]

RootParentHash == HashCombine(Zero, Zero)

\* faulty variant: a bone added again keeps the pose it has
AddBoneKeepingPose(H, BoneName, ReferencePose, PathHash) ==
    LET Children == IF PathHash \in DOMAIN H.PathHashToBoneNames
                    THEN H.PathHashToBoneNames[PathHash] ELSE <<>>
        BoneHash == GetTypeHash(BoneName)
    IN [BoneNamePose |-> IF BoneName \in DOMAIN H.BoneNamePose THEN H.BoneNamePose
                         ELSE MapAdd(H.BoneNamePose, BoneName, ReferencePose),
        PathHashToBoneNames |->
            MapAdd(H.PathHashToBoneNames, PathHash, AddUnique(Children, BoneName)),
        PathToBoneNames |->
            MapAdd(H.PathToBoneNames, BoneName, HashCombine(PathHash, BoneHash))]

\* lines 58-69
AddBone(H, BoneName, ReferencePose, PathHash) ==
    LET Children == IF PathHash \in DOMAIN H.PathHashToBoneNames
                    THEN H.PathHashToBoneNames[PathHash] ELSE <<>>
        BoneHash == GetTypeHash(BoneName)
    IN [BoneNamePose |-> MapAdd(H.BoneNamePose, BoneName, ReferencePose),
        PathHashToBoneNames |->
            MapAdd(H.PathHashToBoneNames, PathHash, AddUnique(Children, BoneName)),
        PathToBoneNames |->
            MapAdd(H.PathToBoneNames, BoneName, HashCombine(PathHash, BoneHash))]

RECURSIVE RecursiveAddBones(_, _, _)
RECURSIVE AddChildBones(_, _, _, _)

\* faulty variant: the parent index is looked up under the child's own name
AddChildBonesOwnIndex(H, Sk, ParentBoneName, Rest) ==
    IF Rest = <<>> \/ Sk.crashed THEN Sk
    ELSE LET ChildBoneName == Head(Rest)
             Added == ModifierAdd(Sk, ChildBoneName,
                                  FindBoneIndex(Sk.Bones, ChildBoneName),
                                  H.BoneNamePose[ChildBoneName])
             Below == IF Added.crashed THEN Added
                      ELSE RecursiveAddBones(H, Added, ChildBoneName)
         IN AddChildBones(H, Below, ParentBoneName, Tail(Rest))

\* the loop body of RecursiveAddBones over the child names still to visit
AddChildBones(H, Sk, ParentBoneName, Rest) ==
    IF Rest = <<>> \/ Sk.crashed THEN Sk
    ELSE LET ChildBoneName == Head(Rest)
             Added == ModifierAdd(Sk, ChildBoneName,
                                  FindBoneIndex(Sk.Bones, ParentBoneName),
                                  H.BoneNamePose[ChildBoneName])
             Below == IF Added.crashed THEN Added
                      ELSE RecursiveAddBones(H, Added, ChildBoneName)
         IN AddChildBones(H, Below, ParentBoneName, Tail(Rest))

RecursiveAddBones(H, Sk, ParentBoneName) ==
    LET PathHash == H.PathToBoneNames[ParentBoneName]
    IN IF PathHash \in DOMAIN H.PathHashToBoneNames
       THEN AddChildBones(H, Sk, ParentBoneName, H.PathHashToBoneNames[PathHash])
       ELSE Sk

\* FindChecked on a missing root entry is a fatal check(); no count of the
\* root candidates is made (the ensure is commented out), the first is taken
PopulateSkeleton(H, Sk) ==
    IF RootParentHash \notin DOMAIN H.PathHashToBoneNames
    THEN [Sk EXCEPT !.crashed = TRUE]
    ELSE LET ChildBoneNames == H.PathHashToBoneNames[RootParentHash]
             RootBoneName == ChildBoneNames[1]
             WithRoot == ModifierAdd(Sk, RootBoneName, INDEX_NONE,
                                     H.BoneNamePose[RootBoneName])
         IN RecursiveAddBones(H, WithRoot, RootBoneName)

--------------------------------------------------------------------------
(* The assets the merge is run on: USkeleton, USkeletalMesh, USCS_Node *)

Bone(Name, ParentIndex) == [Name |-> Name, ParentIndex |-> ParentIndex]

Socket(SocketName, BoneName, RelativeLocation) ==
    [SocketName |-> SocketName, BoneName |-> BoneName, RelativeLocation |-> RelativeLocation]

Pose(Tag) == Transform("l" \o Tag, "r" \o Tag, "s" \o Tag)

NullPtr == "null"

SkeletonIds == {"SkA", "SkB", "SkC", "SkD", "SkF", "SkW", "SkE"}

VirtualBone(SourceBoneName, TargetBoneName, VirtualBoneName) ==
    [SourceBoneName |-> SourceBoneName, TargetBoneName |-> TargetBoneName,
     VirtualBoneName |-> VirtualBoneName]

Curve(CurveName, MetaData) == [CurveName |-> CurveName, MetaData |-> MetaData]

SlotGroup(GroupName, SlotNames) == [GroupName |-> GroupName, SlotNames |-> SlotNames]

BoneEntry(BoneName, BlendScale) == [BoneName |-> BoneName, BlendScale |-> BlendScale]

BlendProfile(Name, Mode, ProfileEntries) ==
    [Name |-> Name, Mode |-> Mode, ProfileEntries |-> ProfileEntries]

NoAncillary ==
    [Sockets |-> <<>>, VirtualBones |-> <<>>, Curves |-> <<>>, SlotGroups |-> <<>>,
     BlendProfiles |-> <<>>]

Skeletons ==
    [id \in SkeletonIds |->
        CASE id = "SkA" ->
               [Bones |-> <<Bone("Root", INDEX_NONE), Bone("Spine", 0), Bone("Head", 1)>>,
                BonePoses |-> <<Pose("A0"), Pose("A1"), Pose("A2")>>,
                Sockets |-> <<Socket("Grip", "Spine", "gA")>>,
                VirtualBones |-> <<VirtualBone("Root", "Spine", "VB_a")>>,
                Curves |-> <<Curve("Smile", "mA")>>,
                SlotGroups |-> <<SlotGroup("DefaultGroup", <<"DefaultSlot", "Upper">>)>>,
                BlendProfiles |->
                    <<BlendProfile("Upper", "TimeFactor", <<BoneEntry("Spine", "2")>>)>>]
          [] id = "SkB" ->
               [Bones |-> <<Bone("Root", INDEX_NONE), Bone("Spine", 0), Bone("Tail", 1)>>,
                BonePoses |-> <<Pose("A0"), Pose("B1"), Pose("B2")>>,
                Sockets |-> <<Socket("Grip", "Spine", "gB"), Socket("Grip", "Tail", "tB")>>,
                VirtualBones |-> <<VirtualBone("Root", "Spine", "VB_b"),
                                   VirtualBone("Root", "Tail", "VB_t")>>,
                Curves |-> <<Curve("Smile", "mB"), Curve("Wag", "wB")>>,
                SlotGroups |-> <<SlotGroup("DefaultGroup", <<"DefaultSlot", "Lower">>),
                                 SlotGroup("Extra", <<"Upper">>)>>,
                BlendProfiles |->
                    <<BlendProfile("Upper", "WeightFactor",
                                   <<BoneEntry("Spine", "3"), BoneEntry("Tail", "4")>>)>>]
          [] id = "SkC" ->
               [Bones |-> <<Bone("Root", INDEX_NONE), Bone("Arm", 0), Bone("Hand", 1)>>,
                BonePoses |-> <<Pose("A0"), Pose("C1"), Pose("C2")>>] @@ NoAncillary
          [] id = "SkD" ->
               [Bones |-> <<Bone("Root", INDEX_NONE), Bone("Leg", 0), Bone("Hand", 1)>>,
                BonePoses |-> <<Pose("D0"), Pose("D1"), Pose("D2")>>] @@ NoAncillary
          [] id = "SkF" ->
               [Bones |-> <<Bone("Root", INDEX_NONE), Bone("Spine2", 0), Bone("Spine", 1),
                            Bone("Tail", 2)>>,
                BonePoses |-> <<Pose("A0"), Pose("F1"), Pose("F2"), Pose("F3")>>]
                   @@ NoAncillary
          [] id = "SkW" ->
               [Bones |-> <<Bone("Hilt", INDEX_NONE), Bone("Blade", 0)>>,
                BonePoses |-> <<Pose("W0"), Pose("W1")>>,
                Sockets |-> <<Socket("Tip", "Blade", "tW")>>,
                Curves |-> <<Curve("Glow", "gW")>>] @@ NoAncillary
          [] OTHER ->
               [Bones |-> <<>>, BonePoses |-> <<>>] @@ NoAncillary]

\* the skeletal mesh of a component: its skeleton and its own reference skeleton
MeshOf(SkeletonId) ==
    [Skeleton |-> SkeletonId,
     RefBones |-> Skeletons[SkeletonId].Bones,
     RefPoses |-> [i \in 1..Len(Skeletons[SkeletonId].Bones) |->
                       Transform("m" \o Skeletons[SkeletonId].BonePoses[i].Location,
                                 "m" \o Skeletons[SkeletonId].BonePoses[i].Rotation,
                                 Skeletons[SkeletonId].BonePoses[i].Scale)]]

\* a construction script: one skeletal mesh node per skeleton of NodeOrder, the
\* first the root node with the others as its children, the others attached
\* to the bone Attach
SceneNodes(NodeOrder, Attach) ==
    [i \in 1..Len(NodeOrder) |->
        [ComponentTemplate |-> "Comp" \o NodeOrder[i],
         Mesh |-> MeshOf(NodeOrder[i]),
         AttachToName |-> IF i = 1 THEN NAME_None ELSE Attach,
         RelativeTransform |-> Pose("Rel" \o NodeOrder[i]),
         ChildNodes |-> IF i = 1
                        THEN [j \in 1..(Len(NodeOrder) - 1) |-> "Comp" \o NodeOrder[j + 1]]
                        ELSE <<>>]]

AttachNames == {NAME_None, "Root", "Spine"}

AllNodes == <<"SkA", "SkB", "SkC", "SkD", "SkF", "SkW", "SkE">>

\* no node at all, a node for every skeleton, or nodes for some skeletons only
Scenes ==
    {<<>>} \cup {SceneNodes(AllNodes, a) : a \in AttachNames}
           \cup {SceneNodes(<<"SkA", "SkW">>, NAME_None)}

RECURSIVE SeqsUpTo(_, _)
SeqsUpTo(S, n) ==
    IF n = 0 THEN {<<>>}
    ELSE LET Shorter == SeqsUpTo(S, n - 1)
         IN Shorter \cup {Append(q, x) : q \in Shorter, x \in S}

SourceLists == SeqsUpTo(SkeletonIds \cup {NullPtr}, MaxSources)

MeshIds == {"MeshA", "MeshW"}

MeshLists == SeqsUpTo(MeshIds \cup {NullPtr}, MaxSources)

\* the skeleton of each skeletal mesh asset
SkeletonOfMesh == [id \in MeshIds |-> IF id = "MeshA" THEN "SkA" ELSE "SkW"]

\* a skeleton handed over as FSkeletalMeshMergeParams.Skeleton: the bones of
\* SkA with those of SkW below Spine
TargetSkeletonIds == {"SkM", "SkN"}

TargetSkeleton ==
    [Bones |-> <<Bone("Root", INDEX_NONE), Bone("Spine", 0), Bone("Head", 1),
                 Bone("Hilt", 1), Bone("Blade", 3)>>,
     BonePoses |-> <<Pose("M0"), Pose("M1"), Pose("M2"), Pose("M3"), Pose("M4")>>]
        @@ NoAncillary

\* the skeleton MergeSkeletons returns for the skeletons of MeshA and MeshW
\* when the component of MeshW is attached to Spine: every bone name carries
\* the suffix of line 912 and every bone has the pose of its source
MergedTargetSkeleton ==
    [Bones |-> <<Bone("Root/1", INDEX_NONE), Bone("Spine/1", 0), Bone("Head/1", 1),
                 Bone("Hilt/1", 1), Bone("Blade/1", 3)>>,
     BonePoses |-> Skeletons["SkA"].BonePoses \o Skeletons["SkW"].BonePoses]
        @@ NoAncillary

\* the objects that exist when a merge is called
SourceAssets ==
    [id \in SkeletonIds \cup TargetSkeletonIds \cup MeshIds |->
        IF id \in SkeletonIds THEN Skeletons[id]
        ELSE IF id = "SkM" THEN TargetSkeleton
        ELSE IF id = "SkN" THEN MergedTargetSkeleton
        ELSE MeshOf(SkeletonOfMesh[id])]

\* FSkeletalMeshMergeParams: Skeleton and bSkeletonBefore
MeshParamSets ==
    [Skeleton : {NullPtr, "SkM", "SkN", "SkA"}, bSkeletonBefore : BOOLEAN]

NoMeshParams == [Skeleton |-> NullPtr, bSkeletonBefore |-> FALSE]

--------------------------------------------------------------------------
(* GetSkeletalMeshByClass: the actor classes and their construction script *)

\* the most nodes of the construction script of the class handed over
MaxNodes == 3

\* the native actor class: no Cast<UBlueprintGeneratedClass> of it or of its
\* super class succeeds
AActorClass == [Name |-> "AActor", Generated |-> FALSE]

\* a TSubclassOf that holds no class
NullClass == [Name |-> NullPtr, Generated |-> FALSE]

\* the component templates, one per node of a construction script
ComponentNames == [Parent |-> <<"P1">>, Child |-> <<"C1", "C2", "C3", "C4">>]

\* what a USCS_Node is to the code: its component class, whether it has a
\* component template and whether its script lists it as a root node
NodeKinds ==
    [ComponentClass : {"USkeletalMeshComponent"}, HasTemplate : BOOLEAN,
     bIsRootNode : BOOLEAN]
    \cup [ComponentClass : {"UStaticMeshComponent"}, HasTemplate : {TRUE},
          bIsRootNode : BOOLEAN]

SCSNode(Level, i, Kind) ==
    [ComponentClass |-> Kind.ComponentClass,
     ComponentTemplate |-> IF Kind.HasTemplate THEN ComponentNames[Level][i] ELSE NullPtr,
     bIsRootNode |-> Kind.bIsRootNode]

\* SimpleConstructionScript->GetAllNodes() of a blueprint class
NodeLists(Level, Most) ==
    UNION {{[i \in 1..n |-> SCSNode(Level, i, k[i])] : k \in [1..n -> NodeKinds]} :
           n \in 0..Most}

\* a blueprint class on the native actor class, with no node or one
ParentClasses ==
    {[Name |-> "Parent", Generated |-> TRUE, SuperStruct |-> AActorClass, AllNodes |-> l] :
         l \in NodeLists("Parent", 1)}

\* the classes a caller hands over: none, the native class, a blueprint class
\* on the native class or on another blueprint class
ActorClasses ==
    {NullClass, AActorClass}
    \cup {[Name |-> "Child", Generated |-> TRUE, SuperStruct |-> s, AllNodes |-> l] :
              s \in {AActorClass} \cup ParentClasses, l \in NodeLists("Child", MaxNodes)}

\* lines 622-644: the nodes of the parent blueprint classes first, then the
\* nodes of the class whose component class is a skeletal mesh component
RECURSIVE GetSkeletalNodesByClass(_)
GetSkeletalNodesByClass(Class) ==
    IF ~Class.Generated THEN <<>>
    ELSE GetSkeletalNodesByClass(Class.SuperStruct)
         \o SelectSeq(Class.AllNodes,
                      LAMBDA Node : Node.ComponentClass = "USkeletalMeshComponent")

\* faulty variant: the component of the root node stays where it was added
KeepInPlace(Array, First, Second) == Array

\* line 1280: TArray::Swap with 0-based indices
SwapElements(Array, First, Second) ==
    [i \in 1..Len(Array) |->
        IF i = First + 1 THEN Array[Second + 1]
        ELSE IF i = Second + 1 THEN Array[First + 1]
        ELSE Array[i]]

\* lines 1266-1287: the loop over the nodes
RECURSIVE CollectSkelMeshes(_, _, _)
CollectSkelMeshes(Nodes, Meshes, HasRoot) ==
    IF Nodes = <<>> THEN Meshes
    ELSE LET Node == Head(Nodes) IN
         IF Node.ComponentTemplate = NullPtr
         THEN CollectSkelMeshes(Tail(Nodes), Meshes, HasRoot)
         ELSE IF ~HasRoot /\ Node.bIsRootNode
         THEN CollectSkelMeshes(Tail(Nodes),
                  SwapElements(Append(Meshes, Node.ComponentTemplate), 0, Len(Meshes)),
                  TRUE)
         ELSE CollectSkelMeshes(Tail(Nodes), Append(Meshes, Node.ComponentTemplate), HasRoot)

\* lines 1260-1290
GetSkeletalMeshByClass(Class) ==
    CollectSkelMeshes(GetSkeletalNodesByClass(Class), <<>>, FALSE)

--------------------------------------------------------------------------
(* MergeSkeletons: helpers of one bone iteration *)

\* lines 867-869: parent bone name and its hash, 0 for a root bone
BoneParentName(Bones, B) ==
    PathAppend(IF B.ParentIndex # INDEX_NONE THEN Bones[B.ParentIndex + 1].Name
               ELSE NAME_None, "1")

BoneParentHash(Bones, B) ==
    IF B.ParentIndex # INDEX_NONE THEN GetTypeHash(BoneParentName(Bones, B)) ELSE Zero

\* line 877: index of the first node whose component uses Skeleton, 0 if none
FirstNodeFor(Nodes, SkeletonId) ==
    IF \E i \in 1..Len(Nodes) : Nodes[i].Mesh.Skeleton = SkeletonId
    THEN CHOOSE i \in 1..Len(Nodes) :
             /\ Nodes[i].Mesh.Skeleton = SkeletonId
             /\ \A j \in 1..(i - 1) : Nodes[j].Mesh.Skeleton # SkeletonId
    ELSE 0

\* lines 885-902: the first node that lists Node's component among its children
FallbackParentName(Nodes, Node, Default) ==
    LET Has(i) == Contains(Nodes[i].ChildNodes, Node.ComponentTemplate)
    IN IF \E i \in 1..Len(Nodes) : Has(i)
       THEN LET i == CHOOSE i \in 1..Len(Nodes) : Has(i) /\ \A j \in 1..(i - 1) : ~Has(j)
            IN Nodes[i].Mesh.RefBones[1].Name
       ELSE Default

\* faulty variant: the node of the skeleton is never looked for
ResolveAttachIgnoringNode(Nodes, SkelIdx, SkeletonId, Bones, B) ==
    [assigned |-> FALSE, BoneNode |-> 0,
     ParentName |-> BoneParentName(Bones, B),
     ParentHash |-> BoneParentHash(Bones, B)]

\* lines 871-909: BoneNode, ParentName and ParentHash of one bone
ResolveAttach(Nodes, SkelIdx, SkeletonId, Bones, B) ==
    LET Idx == FirstNodeFor(Nodes, SkeletonId)
    IN IF SkelIdx > 0 /\ B.ParentIndex = INDEX_NONE /\ Idx # 0
       THEN LET Node == Nodes[Idx]
                Attached == PathAppend(Node.AttachToName, "1")
                ParentName == IF IsNone(Attached)
                              THEN FallbackParentName(Nodes, Node, Attached)
                              ELSE Attached
            IN [assigned |-> TRUE, BoneNode |-> Idx,
                ParentName |-> ParentName, ParentHash |-> GetTypeHash(ParentName)]
       ELSE [assigned |-> FALSE, BoneNode |-> 0,
             ParentName |-> BoneParentName(Bones, B),
             ParentHash |-> BoneParentHash(Bones, B)]

\* lines 911-919: the merged bone name and the path hash of the bone
MergedBoneName(B) == PathAppend(B.Name, "1")

\* faulty variant: below the root the path is looked up under the bone's own name
BonePathHashOfOwnName(NamesToPathHash, Bone_Name, ParentName, ParentHash) ==
    LET Looked == IF ParentHash = Zero THEN ParentName ELSE Bone_Name
        ParentPathHash == IF Looked \in DOMAIN NamesToPathHash
                          THEN NamesToPathHash[Looked] ELSE Zero
    IN HashCombine(ParentPathHash, ParentHash)

BonePathHashOf(NamesToPathHash, Bone_Name, ParentName, ParentHash) ==
    LET ParentPathHash == IF ParentName \in DOMAIN NamesToPathHash
                          THEN NamesToPathHash[ParentName] ELSE Zero
    IN HashCombine(ParentPathHash, ParentHash)

\* faulty variant: the check runs whatever bCheckSkeletonsCompatibility says
IncompatibleUnguarded(Check, NamesToPathHash, Bone_Name, BonePathHash) ==
    /\ Bone_Name \in DOMAIN NamesToPathHash
    /\ NamesToPathHash[Bone_Name] # BonePathHash

\* faulty variant: a known bone name is a mismatch whatever its path hash
IncompatibleByName(Check, NamesToPathHash, Bone_Name, BonePathHash) ==
    /\ Check
    /\ Bone_Name \in DOMAIN NamesToPathHash

\* lines 921-929: the bone is known under another path hash
Incompatible(Check, NamesToPathHash, Bone_Name, BonePathHash) ==
    /\ Check
    /\ Bone_Name \in DOMAIN NamesToPathHash
    /\ NamesToPathHash[Bone_Name] # BonePathHash

\* lines 951-981: the transform stored for the bone
RebasedTransform(Nodes, SkelIdx, BoneNode, B, BoneIdx, Bone_Name, SourcePose) ==
    IF SkelIdx > 0
    THEN LET Mesh == Nodes[BoneNode].Mesh
             Index == FindBoneIndex(Mesh.RefBones, Bone_Name)
         IN IF Index >= 0 /\ Index < Len(Mesh.RefPoses)
            THEN LET BoneRelativeTransform == Mesh.RefPoses[Index + 1]
                     MeshRelativeTransform == Nodes[BoneNode].RelativeTransform
                     BoneWorldTransform == Mesh.RefPoses[1]
                 IN IF B.ParentIndex = INDEX_NONE
                    THEN [SourcePose EXCEPT
                            !.Location = TransformPosition(MeshRelativeTransform,
                                                           BoneWorldTransform.Location),
                            !.Rotation = TransformRotation(MeshRelativeTransform,
                                                           BoneWorldTransform.Rotation)]
                    ELSE IF BoneIdx > 0
                    THEN [SourcePose EXCEPT
                            !.Location = BoneRelativeTransform.Location,
                            !.Rotation = BoneRelativeTransform.Rotation]
                    ELSE SourcePose
            ELSE SourcePose
    ELSE SourcePose

\* faulty variant: every Add makes a new entry
TMapAddMulti(Pairs, K, V) == Append(Pairs, [Key |-> K, Value |-> V])

\* faulty variant: an existing key keeps its value
TMapAddKeepFirst(Pairs, K, V) ==
    IF \E i \in 1..Len(Pairs) : Pairs[i].Key = K THEN Pairs
    ELSE Append(Pairs, [Key |-> K, Value |-> V])

\* TMap::Add on an insertion-ordered list of pairs: an existing key keeps its
\* place and takes the new value
TMapAdd(Pairs, K, V) ==
    IF \E i \in 1..Len(Pairs) : Pairs[i].Key = K
    THEN [i \in 1..Len(Pairs) |-> IF Pairs[i].Key = K THEN [Key |-> K, Value |-> V]
                                  ELSE Pairs[i]]
    ELSE Append(Pairs, [Key |-> K, Value |-> V])

\* lines 991-998: HashToSockets.Add for every socket of the skeleton
RECURSIVE AccumulateSockets(_, _)
AccumulateSockets(Map, Sockets) ==
    IF Sockets = <<>> THEN Map
    ELSE LET S == Head(Sockets)
             Hash == HashCombine(GetTypeHash(S.SocketName), GetTypeHash(S.BoneName))
         IN AccumulateSockets(TMapAdd(Map, Hash, S), Tail(Sockets))

\* lines 1058-1060 and AddSockets: one new socket per value of the map
AddSockets(Sk, Map) ==
    [Sk EXCEPT !.Sockets = @ \o [i \in 1..Len(Map) |-> Map[i].Value]]

\* TMap::Find on the list of pairs: the position of the key, 0 if absent
TMapFind(Pairs, K) ==
    IF \E i \in 1..Len(Pairs) : Pairs[i].Key = K
    THEN CHOOSE i \in 1..Len(Pairs) : Pairs[i].Key = K
    ELSE 0

\* faulty variant: only the virtual bones met while the map is empty are taken
AccumulateVirtualBonesOnce(Map, VirtualBones) ==
    IF Map # <<>> THEN Map
    ELSE [i \in 1..Len(VirtualBones) |->
             [Key |-> HashCombine(GetTypeHash(VirtualBones[i].SourceBoneName),
                                  GetTypeHash(VirtualBones[i].TargetBoneName)),
              Value |-> VirtualBones[i]]]

\* lines 1000-1008: HashToVirtualBones.Add for every virtual bone of the skeleton
RECURSIVE AccumulateVirtualBones(_, _)
AccumulateVirtualBones(Map, VirtualBones) ==
    IF VirtualBones = <<>> THEN Map
    ELSE LET VB == Head(VirtualBones)
             Hash == HashCombine(GetTypeHash(VB.SourceBoneName),
                                 GetTypeHash(VB.TargetBoneName))
         IN AccumulateVirtualBones(TMapAdd(Map, Hash, VB), Tail(VirtualBones))

\* faulty variant: a curve name met again keeps its first metadata
RECURSIVE AccumulateCurvesKeepFirst(_, _)
AccumulateCurvesKeepFirst(Map, Curves) ==
    IF Curves = <<>> THEN Map
    ELSE AccumulateCurvesKeepFirst(
             TMapAddKeepFirst(Map, Head(Curves).CurveName, Head(Curves).MetaData),
             Tail(Curves))

\* lines 1010-1021: UniqueCurveNames.FindOrAdd(CurveName) = metadata
RECURSIVE AccumulateCurves(_, _)
AccumulateCurves(Map, Curves) ==
    IF Curves = <<>> THEN Map
    ELSE AccumulateCurves(TMapAdd(Map, Head(Curves).CurveName, Head(Curves).MetaData),
                          Tail(Curves))

\* TSet::Append: every item not yet in the set is added
RECURSIVE SetAppend(_, _)
SetAppend(Set_, Items) ==
    IF Items = <<>> THEN Set_
    ELSE SetAppend(AddUnique(Set_, Head(Items)), Tail(Items))

\* lines 1023-1030: GroupToSlotNames.FindOrAdd(GroupName).Append(SlotNames)
RECURSIVE AccumulateSlotGroups(_, _)
AccumulateSlotGroups(Map, SlotGroups) ==
    IF SlotGroups = <<>> THEN Map
    ELSE LET G == Head(SlotGroups)
             At == TMapFind(Map, G.GroupName)
             Known == IF At = 0 THEN <<>> ELSE Map[At].Value
         IN AccumulateSlotGroups(TMapAdd(Map, G.GroupName, SetAppend(Known, G.SlotNames)),
                                 Tail(SlotGroups))

\* lines 1032-1038: UniqueBlendProfiles.FindOrAdd(name).Add(profile)
RECURSIVE AccumulateBlendProfiles(_, _)
AccumulateBlendProfiles(Map, BlendProfiles) ==
    IF BlendProfiles = <<>> THEN Map
    ELSE LET P == Head(BlendProfiles)
             At == TMapFind(Map, P.Name)
             Known == IF At = 0 THEN <<>> ELSE Map[At].Value
         IN AccumulateBlendProfiles(TMapAdd(Map, P.Name, Append(Known, P)),
                                    Tail(BlendProfiles))

\* lines 1906-1914: AddNewVirtualBone and RenameVirtualBone for every map value
AddVirtualBones(Sk, Map) ==
    [Sk EXCEPT !.VirtualBones = @ \o [i \in 1..Len(Map) |-> Map[i].Value]]

\* lines 1916-1938: every name is registered and takes the metadata of its value
AddCurveNames(Sk, Map) ==
    [Sk EXCEPT !.Curves =
        [i \in 1..Len(Map) |->
            [CurveName |-> Map[i].Key,
             MetaData |-> IF Map[i].Value # NullPtr THEN Map[i].Value ELSE "default"]]]

\* USkeleton::AddSlotGroupName: the group is created if it does not exist
AddSlotGroupName(SlotGroups, GroupName) ==
    IF \E i \in 1..Len(SlotGroups) : SlotGroups[i].GroupName = GroupName THEN SlotGroups
    ELSE Append(SlotGroups, SlotGroup(GroupName, <<>>))

\* removes every occurrence of X from a sequence
RECURSIVE Without(_, _)
Without(Seq_, X) ==
    IF Seq_ = <<>> THEN <<>>
    ELSE IF Head(Seq_) = X THEN Without(Tail(Seq_), X)
    ELSE <<Head(Seq_)>> \o Without(Tail(Seq_), X)

\* faulty variant: the slot is added to the group and stays in its old one
SetSlotGroupNameKeepingOld(SlotGroups, SlotName, GroupName) ==
    LET With == AddSlotGroupName(SlotGroups, GroupName)
    IN [i \in 1..Len(With) |->
           IF With[i].GroupName = GroupName
           THEN [With[i] EXCEPT !.SlotNames = AddUnique(@, SlotName)]
           ELSE With[i]]

\* line 1981, USkeleton::SetSlotGroupName: a slot belongs to one group; a slot
\* of another group is taken out of it and put into GroupName
SetSlotGroupName(SlotGroups, SlotName, GroupName) ==
    LET With == AddSlotGroupName(SlotGroups, GroupName)
    IN [i \in 1..Len(With) |->
           IF With[i].GroupName = GroupName
           THEN [With[i] EXCEPT !.SlotNames = AddUnique(@, SlotName)]
           ELSE [With[i] EXCEPT !.SlotNames = Without(@, SlotName)]]

\* lines 1979-1982: the slots of one group
RECURSIVE SetSlotGroupNames(_, _, _)
SetSlotGroupNames(SlotGroups, SlotNames, GroupName) ==
    IF SlotNames = <<>> THEN SlotGroups
    ELSE SetSlotGroupNames(SetSlotGroupName(SlotGroups, Head(SlotNames), GroupName),
                           Tail(SlotNames), GroupName)

\* lines 1974-1984
RECURSIVE AddAnimationSlotGroups(_, _)
AddAnimationSlotGroups(Sk, Map) ==
    IF Map = <<>> THEN Sk
    ELSE LET Pair == Head(Map)
             Named == AddSlotGroupName(Sk.SlotGroups, Pair.Key)
         IN AddAnimationSlotGroups(
                [Sk EXCEPT !.SlotGroups = SetSlotGroupNames(Named, Pair.Value, Pair.Key)],
                Tail(Map))

HasEntry(ProfileEntries, BoneName) ==
    \E i \in 1..Len(ProfileEntries) : ProfileEntries[i].BoneName = BoneName

\* faulty variant: the scale of a bone that has an entry is left as it is
SetBoneBlendScaleOnce(ProfileEntries, BoneName, BlendScale) ==
    IF HasEntry(ProfileEntries, BoneName) THEN ProfileEntries
    ELSE Append(ProfileEntries, BoneEntry(BoneName, BlendScale))

\* line 1968, UBlendProfile::SetBoneBlendScale with bCreate: the entry of the
\* bone is created if need be and takes the scale
SetBoneBlendScale(ProfileEntries, BoneName, BlendScale) ==
    IF HasEntry(ProfileEntries, BoneName)
    THEN [i \in 1..Len(ProfileEntries) |->
             IF ProfileEntries[i].BoneName = BoneName
             THEN BoneEntry(BoneName, BlendScale) ELSE ProfileEntries[i]]
    ELSE Append(ProfileEntries, BoneEntry(BoneName, BlendScale))

Ensure(Reports, Condition, Message) ==
    IF Condition THEN Reports ELSE Append(Reports, Message)

\* lines 1955-1969: the entries of one source profile, St = [Profile, Reports]
RECURSIVE MergeProfileEntries(_, _, _)
MergeProfileEntries(St, ProfileEntries, Bones) ==
    IF ProfileEntries = <<>> THEN St
    ELSE LET Entry == Head(ProfileEntries)
             Reports == Ensure(St.Reports,
                               ~HasEntry(St.Profile.ProfileEntries, Entry.BoneName),
                               [Verbosity |-> "Ensure", Skeleton |-> St.Profile.Name,
                                Message |-> "overlapping bone entries"])
             BoneIdx == FindBoneIndex(Bones, Entry.BoneName)
             Profile == IF BoneIdx = INDEX_NONE THEN St.Profile
                        ELSE [St.Profile EXCEPT !.ProfileEntries =
                                 SetBoneBlendScale(@, Entry.BoneName, Entry.BlendScale)]
         IN MergeProfileEntries([Profile |-> Profile, Reports |-> Reports],
                                Tail(ProfileEntries), Bones)

\* lines 1947-1970: the source profiles of one name, St = [Profile, Reports]
RECURSIVE MergeProfiles(_, _, _, _)
MergeProfiles(St, BlendProfiles, ProfileIndex, Bones) ==
    IF ProfileIndex >= Len(BlendProfiles) THEN St
    ELSE LET Profile == BlendProfiles[ProfileIndex + 1]
             Mode == IF ProfileIndex = 0 THEN Profile.Mode ELSE St.Profile.Mode
             Reports == Ensure(St.Reports, Mode = Profile.Mode,
                               [Verbosity |-> "Ensure", Skeleton |-> St.Profile.Name,
                                Message |-> "blend profile mode mismatch"])
         IN MergeProfiles(
                MergeProfileEntries([Profile |-> [St.Profile EXCEPT !.Mode = Mode],
                                     Reports |-> Reports],
                                    Profile.ProfileEntries, Bones),
                BlendProfiles, ProfileIndex + 1, Bones)

\* lines 1940-1972, St = [Sk, Reports]
RECURSIVE AddBlendProfiles(_, _)
AddBlendProfiles(St, Map) ==
    IF Map = <<>> THEN St
    ELSE LET Pair == Head(Map)
             Merged == MergeProfiles([Profile |-> BlendProfile(Pair.Key, "none", <<>>),
                                      Reports |-> St.Reports],
                                     Pair.Value, 0, St.Sk.Bones)
         IN AddBlendProfiles(
                [Sk |-> [St.Sk EXCEPT !.BlendProfiles = Append(@, Merged.Profile)],
                 Reports |-> Merged.Reports],
                Tail(Map))

--------------------------------------------------------------------------
(* State *)

\* the flags of the ancillary data: none set, one set, all set
AncillaryFlags ==
    LET Names == {"bMergeSockets", "bMergeVirtualBones", "bMergeCurveNames",
                  "bMergeAnimSlotGroups", "bMergeBlendProfiles"}
    IN {[n \in Names |-> FALSE], [n \in Names |-> TRUE]}
           \cup {[n \in Names |-> n = m] : m \in Names}

MergeParams(SkeletonsToMerge, bCheckSkeletonsCompatibility, Flags) ==
    [SkeletonsToMerge |-> SkeletonsToMerge,
     bCheckSkeletonsCompatibility |-> bCheckSkeletonsCompatibility] @@ Flags

NoParams == MergeParams(<<>>, FALSE, [n \in {"bMergeSockets", "bMergeVirtualBones",
                                             "bMergeCurveNames", "bMergeAnimSlotGroups",
                                             "bMergeBlendProfiles"} |-> FALSE])

InitLocals ==
    /\ ToMergeSkeletons = <<>>
    /\ SkeletonIndex = 0
    /\ BoneIndex = 0
    /\ bMergeSkeletonsFailed = FALSE
    /\ bConflictivePoseFound = FALSE
    /\ BoneNamesToPathHash = EmptyMap
    /\ BoneNamesToBonePose = EmptyMap
    /\ HashToSockets = <<>>
    /\ HashToVirtualBones = <<>>
    /\ UniqueCurveNames = <<>>
    /\ GroupToSlotNames = <<>>
    /\ UniqueBlendProfiles = <<>>
    /\ MergedBoneHierarchy = EmptyHierarchy
    /\ GeneratedSkeleton = NullSkeleton
    /\ ResultMesh = NullSkeleton
    /\ PackageCreated = FALSE
    /\ SavePackageCalls = 0
    /\ AddBoneCalls = 0
    /\ Log = <<>>
    /\ PathKeys = {}
    /\ Assets = SourceAssets
    /\ SkelMeshes = <<>>

\* a call of MergeSkeletons, of SaveMergeSkeletons, of SaveMergeMeshes or of
\* MergeSkeletal with its arguments, or a direct user of FMergedBoneHierarchy
Init ==
    /\ InitLocals
    /\ \/ /\ entry = "MergeSkeletons"
          /\ pc = "Validating"
          /\ PathIsValid = TRUE
          /\ ActorClass = AActorClass
          /\ MeshesToMerge = <<>>
          /\ MeshParams = NoMeshParams
          /\ SkeletalNodes \in Scenes
          /\ \E l \in SourceLists, c \in BOOLEAN, f \in AncillaryFlags :
                 Params = MergeParams(l, c, f)
       \/ /\ entry = "SaveMergeSkeletons"
          /\ pc = "SaveEntry"
          /\ PathIsValid \in BOOLEAN
          /\ ActorClass = AActorClass
          /\ MeshesToMerge = <<>>
          /\ MeshParams = NoMeshParams
          /\ SkeletalNodes \in Scenes
          /\ \E l \in SourceLists, c \in BOOLEAN, f \in AncillaryFlags :
                 Params = MergeParams(l, c, f)
       \/ /\ entry = "SaveMergeMeshes"
          /\ pc = "SaveEntry"
          /\ PathIsValid \in BOOLEAN
          /\ ActorClass = AActorClass
          /\ MeshesToMerge \in MeshLists
          /\ MeshParams \in MeshParamSets
          /\ SkeletalNodes = <<>>
          /\ Params = NoParams
       \/ /\ entry = "MergeSkeletal"
          /\ pc = "MergeSkeletal"
          /\ PathIsValid = TRUE
          /\ ActorClass = AActorClass
          /\ MeshesToMerge = <<>>
          /\ MeshParams = NoMeshParams
          /\ SkeletalNodes = <<>>
          /\ \E l \in SourceLists : Params = [NoParams EXCEPT !.SkeletonsToMerge = l]
       \/ /\ entry = "Hierarchy"
          /\ pc = "Driving"
          /\ PathIsValid = TRUE
          /\ ActorClass = AActorClass
          /\ MeshesToMerge = <<>>
          /\ MeshParams = NoMeshParams
          /\ SkeletalNodes = <<>>
          /\ Params = NoParams
       \/ /\ entry = "GetSkeletalMeshByClass"
          /\ pc = "GetSkeletalMeshByClass"
          /\ PathIsValid = TRUE
          /\ ActorClass \in ActorClasses
          /\ MeshesToMerge = <<>>
          /\ MeshParams = NoMeshParams
          /\ SkeletalNodes = <<>>
          /\ Params = NoParams

--------------------------------------------------------------------------
(* MergeSkeletons *)

RECURSIVE Unique(_)
Unique(Seq_) ==
    IF Seq_ = <<>> THEN <<>>
    ELSE AddUnique(Unique(SubSeq(Seq_, 1, Len(Seq_) - 1)), Seq_[Len(Seq_)])

RECURSIVE TotalBones(_)
TotalBones(Ids) ==
    IF Ids = <<>> THEN 0 ELSE Len(Skeletons[Head(Ids)].Bones) + TotalBones(Tail(Ids))

\* faulty variant: the bone count is not looked at
HasNoBonesNever(Ids) == FALSE

\* lines 820-829
HasNoBones(Ids) == TotalBones(Ids) = 0

NumBonesOf(Ids, Idx) == Len(Skeletons[Ids[Idx + 1]].Bones)

\* where the outer loop stands when it turns to skeleton Idx
LoopAt(Ids, Idx) ==
    IF Idx >= Len(Ids) THEN "LoopDone"
    ELSE IF NumBonesOf(Ids, Idx) = 0 THEN "SourceEnd" ELSE "Accumulating"

\* return of MergeSkeletons to its caller
ReturnSkeleton(Sk) ==
    /\ ResultMesh' = Sk
    /\ pc' = IF entry = "SaveMergeSkeletons" THEN "SaveAfterMerge" ELSE "Finished"

\* lines 805-850
Validate ==
    /\ pc = "Validating"
    /\ LET Unq == Unique(Params.SkeletonsToMerge)
       IN /\ ToMergeSkeletons' = Unq
          /\ IF Len(Unq) = 0
             THEN ReturnSkeleton(NullSkeleton)
             ELSE IF Contains(Unq, NullPtr)
             THEN pc' = "Crashed" /\ UNCHANGED ResultMesh
             ELSE IF HasNoBones(Unq)
             THEN ReturnSkeleton(NullSkeleton)
             ELSE pc' = LoopAt(Unq, 0) /\ UNCHANGED ResultMesh
    /\ UNCHANGED <<ActorClass, SkelMeshes, entry, Params, SkeletalNodes, PathIsValid, MeshesToMerge, MeshParams,
                   Assets,
                   SkeletonIndex, BoneIndex, bMergeSkeletonsFailed,
                   bConflictivePoseFound, BoneNamesToPathHash, BoneNamesToBonePose,
                   HashToSockets, HashToVirtualBones, UniqueCurveNames,
                   GroupToSlotNames, UniqueBlendProfiles, MergedBoneHierarchy, GeneratedSkeleton,
                   PackageCreated, SavePackageCalls, AddBoneCalls, Log, PathKeys>>

\* line 955: the values a read of BoneNode can give.  BoneNode is declared
\* without initialiser in the loop body and assigned only for a secondary root
\* with a matching node: any other read gives an indeterminate pointer, here
\* any node or a garbage pointer (0) whose dereference ends the call
BoneNodeValues(Nodes, SkelIdx, R) ==
    IF SkelIdx = 0 \/ R.assigned THEN {R.BoneNode}
    ELSE 0..Len(Nodes)

\* lines 862-984: one iteration of the bone loop
AccumulateBone ==
    /\ pc = "Accumulating"
    /\ LET SkeletonId == ToMergeSkeletons[SkeletonIndex + 1]
           Bones == Skeletons[SkeletonId].Bones
           BonePoses == Skeletons[SkeletonId].BonePoses
           B == Bones[BoneIndex + 1]
           R == ResolveAttach(SkeletalNodes, SkeletonIndex, SkeletonId, Bones, B)
           Bone_Name == MergedBoneName(B)
           BonePathHash == BonePathHashOf(BoneNamesToPathHash, Bone_Name,
                                          R.ParentName, R.ParentHash)
           Check == Params.bCheckSkeletonsCompatibility
           Exists == Bone_Name \in DOMAIN BoneNamesToPathHash
       IN IF Incompatible(Check, BoneNamesToPathHash, Bone_Name, BonePathHash)
          THEN /\ bMergeSkeletonsFailed' = TRUE
               /\ Log' = Append(Log, [Verbosity |-> "Error", Skeleton |-> SkeletonId,
                                      Message |-> "invalid bone chain"])
               /\ pc' = "SourceEnd"
               /\ UNCHANGED <<BoneIndex, bConflictivePoseFound, BoneNamesToPathHash,
                              BoneNamesToBonePose, MergedBoneHierarchy, PathKeys>>
          ELSE \E BoneNode \in BoneNodeValues(SkeletalNodes, SkeletonIndex, R) :
               LET Differs == /\ Check /\ Exists /\ ~bConflictivePoseFound
                              /\ BoneNamesToBonePose[Bone_Name] # BonePoses[BoneIndex + 1]
               IN IF SkeletonIndex > 0 /\ BoneNode = 0
                  THEN /\ pc' = "Crashed"
                       /\ UNCHANGED <<BoneIndex, bMergeSkeletonsFailed,
                                      bConflictivePoseFound, BoneNamesToPathHash,
                                      BoneNamesToBonePose, MergedBoneHierarchy, Log,
                                      PathKeys>>
                  ELSE /\ bConflictivePoseFound' = (bConflictivePoseFound \/ Differs)
                       /\ Log' = IF Differs
                                 THEN Append(Log, [Verbosity |-> "Warning",
                                                   Skeleton |-> SkeletonId,
                                                   Message |-> "different reference pose"])
                                 ELSE Log
                       /\ BoneNamesToBonePose' =
                              IF Check
                              THEN MapAdd(BoneNamesToBonePose, Bone_Name, BonePoses[BoneIndex + 1])
                              ELSE BoneNamesToBonePose
                       /\ BoneNamesToPathHash' = MapAdd(BoneNamesToPathHash, Bone_Name, BonePathHash)
                       /\ PathKeys' = PathKeys \cup {[Skeleton |-> SkeletonId,
                                                       Bone |-> BoneIndex,
                                                       PathHash |-> BonePathHash]}
                       /\ MergedBoneHierarchy' =
                              AddBone(MergedBoneHierarchy, Bone_Name,
                                      RebasedTransform(SkeletalNodes, SkeletonIndex, BoneNode, B,
                                                       BoneIndex, Bone_Name,
                                                       BonePoses[BoneIndex + 1]),
                                      BonePathHash)
                       /\ BoneIndex' = BoneIndex + 1
                       /\ pc' = IF BoneIndex + 1 < Len(Bones) THEN "Accumulating"
                                ELSE "SourceEnd"
                       /\ UNCHANGED bMergeSkeletonsFailed
    /\ UNCHANGED <<ActorClass, SkelMeshes, entry, Params, SkeletalNodes, PathIsValid, MeshesToMerge, MeshParams,
                   Assets,
                   ToMergeSkeletons, SkeletonIndex, HashToSockets, HashToVirtualBones, UniqueCurveNames,
                   GroupToSlotNames, UniqueBlendProfiles, GeneratedSkeleton,
                   ResultMesh, PackageCreated, SavePackageCalls, AddBoneCalls>>

\* lines 986-1039: after the bone loop of one skeleton, on to the next
SourceEnd ==
    /\ pc = "SourceEnd"
    /\ LET SkeletonId == ToMergeSkeletons[SkeletonIndex + 1]
           Skipped == Params.bCheckSkeletonsCompatibility /\ bMergeSkeletonsFailed
           Source == Skeletons[SkeletonId]
       IN /\ HashToSockets' =
                 IF ~Skipped /\ Params.bMergeSockets
                 THEN AccumulateSockets(HashToSockets, Source.Sockets)
                 ELSE HashToSockets
          /\ HashToVirtualBones' =
                 IF ~Skipped /\ Params.bMergeVirtualBones
                 THEN AccumulateVirtualBones(HashToVirtualBones, Source.VirtualBones)
                 ELSE HashToVirtualBones
          /\ UniqueCurveNames' =
                 IF ~Skipped /\ Params.bMergeCurveNames
                 THEN AccumulateCurves(UniqueCurveNames, Source.Curves)
                 ELSE UniqueCurveNames
          /\ GroupToSlotNames' =
                 IF ~Skipped /\ Params.bMergeAnimSlotGroups
                 THEN AccumulateSlotGroups(GroupToSlotNames, Source.SlotGroups)
                 ELSE GroupToSlotNames
          /\ UniqueBlendProfiles' =
                 IF ~Skipped /\ Params.bMergeBlendProfiles
                 THEN AccumulateBlendProfiles(UniqueBlendProfiles, Source.BlendProfiles)
                 ELSE UniqueBlendProfiles
    /\ SkeletonIndex' = SkeletonIndex + 1
    /\ BoneIndex' = 0
    /\ bConflictivePoseFound' = FALSE
    /\ pc' = LoopAt(ToMergeSkeletons, SkeletonIndex + 1)
    /\ UNCHANGED <<ActorClass, SkelMeshes, entry, Params, SkeletalNodes, PathIsValid, MeshesToMerge, MeshParams,
                   Assets,
                   ToMergeSkeletons, bMergeSkeletonsFailed, BoneNamesToPathHash,
                   BoneNamesToBonePose, MergedBoneHierarchy, GeneratedSkeleton,
                   ResultMesh, PackageCreated, SavePackageCalls, AddBoneCalls, Log, PathKeys>>

\* faulty variant: the skeleton is generated whatever bMergeSkeletonsFailed says
FinishAccumulateIgnoringFailure ==
    /\ pc = "LoopDone"
    /\ GeneratedSkeleton' = NewSkeleton
    /\ pc' = "Populating"
    /\ UNCHANGED <<ActorClass, SkelMeshes, entry, Params, SkeletalNodes, PathIsValid, MeshesToMerge, MeshParams,
                   Assets,
                   ToMergeSkeletons, SkeletonIndex, BoneIndex, bMergeSkeletonsFailed,
                   bConflictivePoseFound, BoneNamesToPathHash, BoneNamesToBonePose,
                   HashToSockets, HashToVirtualBones, UniqueCurveNames,
                   GroupToSlotNames, UniqueBlendProfiles, MergedBoneHierarchy, PackageCreated,
                   SavePackageCalls, AddBoneCalls, ResultMesh, Log, PathKeys>>

\* lines 1041-1047
FinishAccumulate ==
    /\ pc = "LoopDone"
    /\ IF bMergeSkeletonsFailed
       THEN /\ ReturnSkeleton(NullSkeleton)
            /\ Log' = Append(Log, [Verbosity |-> "Error", Skeleton |-> NullPtr,
                                   Message |-> "invalid parent chains"])
            /\ UNCHANGED GeneratedSkeleton
       ELSE /\ GeneratedSkeleton' = NewSkeleton
            /\ pc' = "Populating"
            /\ UNCHANGED <<ResultMesh, Log>>
    /\ UNCHANGED <<ActorClass, SkelMeshes, entry, Params, SkeletalNodes, PathIsValid, MeshesToMerge, MeshParams,
                   Assets,
                   ToMergeSkeletons, SkeletonIndex, BoneIndex, bMergeSkeletonsFailed,
                   bConflictivePoseFound, BoneNamesToPathHash, BoneNamesToBonePose,
                   HashToSockets, HashToVirtualBones, UniqueCurveNames,
                   GroupToSlotNames, UniqueBlendProfiles, MergedBoneHierarchy, PackageCreated,
                   SavePackageCalls, AddBoneCalls, PathKeys>>

\* faulty variant: the bone hierarchy is not written into the new skeleton
PopulateNothing ==
    /\ pc = "Populating"
    /\ pc' = "MergingAncillary"
    /\ UNCHANGED <<ActorClass, SkelMeshes, entry, Params, SkeletalNodes, PathIsValid, MeshesToMerge, MeshParams,
                   Assets, GeneratedSkeleton,
                   ToMergeSkeletons, SkeletonIndex, BoneIndex, bMergeSkeletonsFailed,
                   bConflictivePoseFound, BoneNamesToPathHash, BoneNamesToBonePose,
                   HashToSockets, HashToVirtualBones, UniqueCurveNames,
                   GroupToSlotNames, UniqueBlendProfiles, MergedBoneHierarchy, ResultMesh, PackageCreated,
                   SavePackageCalls, AddBoneCalls, Log, PathKeys>>

\* lines 1049-1053
Populate ==
    /\ pc = "Populating"
    /\ GeneratedSkeleton' = PopulateSkeleton(MergedBoneHierarchy, GeneratedSkeleton)
    /\ pc' = IF GeneratedSkeleton'.crashed THEN "Crashed" ELSE "MergingAncillary"
    /\ UNCHANGED <<ActorClass, SkelMeshes, entry, Params, SkeletalNodes, PathIsValid, MeshesToMerge, MeshParams,
                   Assets,
                   ToMergeSkeletons, SkeletonIndex, BoneIndex, bMergeSkeletonsFailed,
                   bConflictivePoseFound, BoneNamesToPathHash, BoneNamesToBonePose,
                   HashToSockets, HashToVirtualBones, UniqueCurveNames,
                   GroupToSlotNames, UniqueBlendProfiles, MergedBoneHierarchy, ResultMesh, PackageCreated,
                   SavePackageCalls, AddBoneCalls, Log, PathKeys>>

\* lines 1055-1089
MergeAncillary ==
    /\ pc = "MergingAncillary"
    /\ LET S1 == IF Params.bMergeSockets
                 THEN AddSockets(GeneratedSkeleton, HashToSockets)
                 ELSE GeneratedSkeleton
           S2 == IF Params.bMergeVirtualBones
                 THEN AddVirtualBones(S1, HashToVirtualBones) ELSE S1
           S3 == IF Params.bMergeCurveNames
                 THEN AddCurveNames(S2, UniqueCurveNames) ELSE S2
           S4 == IF Params.bMergeBlendProfiles
                 THEN AddBlendProfiles([Sk |-> S3, Reports |-> <<>>], UniqueBlendProfiles)
                 ELSE [Sk |-> S3, Reports |-> <<>>]
           S5 == IF Params.bMergeAnimSlotGroups
                 THEN AddAnimationSlotGroups(S4.Sk, GroupToSlotNames) ELSE S4.Sk
       IN /\ GeneratedSkeleton' = S5
          /\ Log' = Log \o S4.Reports
    /\ ReturnSkeleton(GeneratedSkeleton')
    /\ UNCHANGED <<ActorClass, SkelMeshes, entry, Params, SkeletalNodes, PathIsValid, MeshesToMerge, MeshParams,
                   Assets,
                   ToMergeSkeletons, SkeletonIndex, BoneIndex, bMergeSkeletonsFailed,
                   bConflictivePoseFound, BoneNamesToPathHash, BoneNamesToBonePose,
                   HashToSockets, HashToVirtualBones, UniqueCurveNames,
                   GroupToSlotNames, UniqueBlendProfiles, MergedBoneHierarchy, PackageCreated,
                   SavePackageCalls, AddBoneCalls, PathKeys>>

--------------------------------------------------------------------------
(* SaveMergeSkeletons, SaveMergeMeshes, MergeMeshes *)

\* lines 407-417 and 443-459: the export path is checked, the package created
SaveBegin ==
    /\ pc = "SaveEntry"
    /\ IF ~PathIsValid
       THEN pc' = "Finished" /\ UNCHANGED PackageCreated
       ELSE /\ PackageCreated' = TRUE
            /\ pc' = IF entry = "SaveMergeSkeletons" THEN "Validating" ELSE "MergeMeshes"
    /\ UNCHANGED <<ActorClass, SkelMeshes, entry, Params, SkeletalNodes, PathIsValid, MeshesToMerge, MeshParams,
                   Assets,
                   ToMergeSkeletons, SkeletonIndex, BoneIndex, bMergeSkeletonsFailed,
                   bConflictivePoseFound, BoneNamesToPathHash, BoneNamesToBonePose,
                   HashToSockets, HashToVirtualBones, UniqueCurveNames,
                   GroupToSlotNames, UniqueBlendProfiles, MergedBoneHierarchy, GeneratedSkeleton, ResultMesh,
                   SavePackageCalls, AddBoneCalls, Log, PathKeys>>

\* faulty variant: no copy is made, the pointer to the object itself is used
DuplicateObjectAliased(Heap, Id, NewId) == [Heap |-> Heap, Ptr |-> Id]

\* DuplicateObject (line 1115, line 790): a new object with the same contents
DuplicateObject(Heap, Id, NewId) == [Heap |-> MapAdd(Heap, NewId, Heap[Id]), Ptr |-> NewId]

\* what a TArray read at INDEX_NONE gives (lines 1166 and 1171): the range
\* check() ends the call, or the read goes on with whatever is there
OutOfRangeReads ==
    {[crash |-> TRUE, Pose |-> Pose("none"), ParentIndex |-> INDEX_NONE]}
        \cup {[crash |-> FALSE, Pose |-> Pose("garbage"), ParentIndex |-> p] :
                  p \in {INDEX_NONE, 0}}

\* lines 1164-1181: one bone of a mesh added to the reference skeleton of the
\* root mesh; St = [Mesh, crashed]
AddMeshBone(St, Unchecked, NewSk, BoneInfoArr, BoneInfoIndex) ==
    LET BoneInfo == BoneInfoArr[BoneInfoIndex + 1]
        BoneIdxOnNewSkeleton == FindBoneIndex(NewSk.Bones, BoneInfo.Name)
        PoseInRange == BoneIdxOnNewSkeleton # INDEX_NONE
        ParentOnNew == IF PoseInRange THEN NewSk.Bones[BoneIdxOnNewSkeleton + 1].ParentIndex
                       ELSE INDEX_NONE
        NameInRange == BoneInfoIndex = 0 => ParentOnNew # INDEX_NONE
        BonePose == IF PoseInRange THEN NewSk.BonePoses[BoneIdxOnNewSkeleton + 1]
                    ELSE Unchecked.Pose
        ParentIndex ==
            IF BoneInfoIndex = 0
            THEN IF NameInRange
                 THEN FindBoneIndex(St.Mesh.RefBones, NewSk.Bones[ParentOnNew + 1].Name)
                 ELSE Unchecked.ParentIndex
            ELSE FindBoneIndex(St.Mesh.RefBones, BoneInfoArr[BoneInfo.ParentIndex + 1].Name)
    IN IF St.crashed THEN St
       ELSE IF ~(PoseInRange /\ NameInRange) /\ Unchecked.crash
       THEN [St EXCEPT !.crashed = TRUE]
       ELSE IF FindBoneIndex(St.Mesh.RefBones, BoneInfo.Name) # INDEX_NONE
       THEN [St EXCEPT !.crashed = TRUE]
       ELSE [St EXCEPT !.Mesh.RefBones = Append(@, Bone(BoneInfo.Name, ParentIndex)),
                       !.Mesh.RefPoses = Append(@, BonePose)]

\* lines 1162-1182: the bone loop over one mesh
RECURSIVE AddMeshBones(_, _, _, _, _)
AddMeshBones(St, Unchecked, NewSk, BoneInfoArr, BoneInfoIndex) ==
    IF BoneInfoIndex >= Len(BoneInfoArr) THEN St
    ELSE AddMeshBones(AddMeshBone(St, Unchecked, NewSk, BoneInfoArr, BoneInfoIndex),
                      Unchecked, NewSk, BoneInfoArr, BoneInfoIndex + 1)

\* lines 1132-1183: the loop over the meshes after the first; a mesh with the
\* skeleton of the root mesh or with a skeleton met before is skipped
RECURSIVE AddMeshSkeletons(_, _, _, _, _, _, _)
AddMeshSkeletons(St, Unchecked, Heap, NewSk, MeshesToMergeCopy, MeshIndex, MergedSkeletons) ==
    IF MeshIndex >= Len(MeshesToMergeCopy) THEN St
    ELSE LET Mesh == Heap[MeshesToMergeCopy[MeshIndex + 1]]
             SkipProcess == \/ Mesh.Skeleton = St.Mesh.Skeleton
                            \/ Contains(MergedSkeletons, Mesh.Skeleton)
         IN IF SkipProcess
            THEN AddMeshSkeletons(St, Unchecked, Heap, NewSk, MeshesToMergeCopy,
                                  MeshIndex + 1, MergedSkeletons)
            ELSE AddMeshSkeletons(AddMeshBones(St, Unchecked, NewSk, Mesh.RefBones, 0),
                                  Unchecked, Heap, NewSk, MeshesToMergeCopy,
                                  MeshIndex + 1, AddUnique(MergedSkeletons, Mesh.Skeleton))

\* lines 1092-1258: null meshes are dropped, at least two must remain, the
\* first is replaced by a duplicate; with Params.Skeleton and bSkeletonBefore
\* the bones of the other meshes are added to the duplicate, which is given the
\* new skeleton; the external mesh combiner (DoMerge) decides the result
MergeMeshes ==
    /\ pc = "MergeMeshes"
    /\ LET Filtered == SelectSeq(MeshesToMerge, LAMBDA m : m # NullPtr)
       IN IF Len(Filtered) <= 1
          THEN /\ ResultMesh' = NullSkeleton
               /\ pc' = "SaveAfterMerge"
               /\ UNCHANGED Assets
          ELSE \E DoMerge \in BOOLEAN, Unchecked \in OutOfRangeReads :
               LET WithBase == MapAdd(Assets, "BaseMesh",
                                      [Skeleton |-> NullPtr, RefBones |-> <<>>,
                                       RefPoses |-> <<>>])
                   Dup == DuplicateObject(WithBase, Filtered[1], "CopyMesh")
                   MeshesToMergeCopy == [Filtered EXCEPT ![1] = Dup.Ptr]
                   Before == MeshParams.Skeleton # NullPtr /\ MeshParams.bSkeletonBefore
                   St0 == [Mesh |-> Dup.Heap[Dup.Ptr], crashed |-> FALSE]
                   St1 == IF Before
                          THEN AddMeshSkeletons(St0, Unchecked, Dup.Heap,
                                                Dup.Heap[MeshParams.Skeleton],
                                                MeshesToMergeCopy, 1, <<>>)
                          ELSE St0
                   RootSkelMesh == IF Before /\ ~St1.crashed
                                   THEN [St1.Mesh EXCEPT !.Skeleton = MeshParams.Skeleton]
                                   ELSE St1.Mesh
                   Written == [Dup.Heap EXCEPT ![Dup.Ptr] = RootSkelMesh]
                   SetSkeleton == Before \/ (DoMerge /\ MeshParams.Skeleton # NullPtr)
               IN IF St1.crashed
                  THEN /\ pc' = "Crashed"
                       /\ Assets' = Written
                       /\ UNCHANGED ResultMesh
                  ELSE /\ pc' = "SaveAfterMerge"
                       /\ Assets' = IF SetSkeleton
                                    THEN [Written EXCEPT
                                              !["BaseMesh"].Skeleton = MeshParams.Skeleton]
                                    ELSE Written
                       /\ ResultMesh' = IF DoMerge THEN NewSkeleton ELSE NullSkeleton
    /\ UNCHANGED <<ActorClass, SkelMeshes, entry, Params, SkeletalNodes, PathIsValid, MeshesToMerge, MeshParams,
                   ToMergeSkeletons, SkeletonIndex, BoneIndex, bMergeSkeletonsFailed,
                   bConflictivePoseFound, BoneNamesToPathHash, BoneNamesToBonePose,
                   HashToSockets, HashToVirtualBones, UniqueCurveNames,
                   GroupToSlotNames, UniqueBlendProfiles, MergedBoneHierarchy, GeneratedSkeleton,
                   PackageCreated, SavePackageCalls, AddBoneCalls, Log, PathKeys>>

\* lines 788-792: every skeleton of the list is duplicated; the loop variable
\* is a copy of the array element, so the array keeps the pointers it had
RECURSIVE DuplicateSkeletons(_, _, _)
DuplicateSkeletons(Heap, SkeletonsToMergeCopy, Idx) ==
    IF Idx >= Len(SkeletonsToMergeCopy) THEN Heap
    ELSE DuplicateSkeletons(DuplicateObject(Heap, SkeletonsToMergeCopy[Idx + 1],
                                            "Duplicate" \o ToString(Idx)).Heap,
                            SkeletonsToMergeCopy, Idx + 1)

\* lines 752-763: the bone infos of a skeleton are copied into the local
\* CurrentBoneInfo; a bone found in LastBoneInfo, which is read from the same
\* skeleton, is renamed in that local array
RenamedBoneInfo(Heap, SourceSkeleton) ==
    LET CurrentBoneInfo == Heap[SourceSkeleton].Bones
        LastBoneInfo == Heap[SourceSkeleton].Bones
    IN [i \in 1..Len(CurrentBoneInfo) |->
           IF FindBoneIndex(LastBoneInfo, CurrentBoneInfo[i].Name) # INDEX_NONE
           THEN [CurrentBoneInfo[i] EXCEPT !.Name = @ \o "_" \o SourceSkeleton]
           ELSE CurrentBoneInfo[i]]

\* lines 745-770: the heap after the call and the local arrays it worked on,
\* one for every skeleton after the first
ModifySameBoneName(Heap, SkeletonList) ==
    [Heap |-> Heap,
     CurrentBoneInfo |-> [i \in 1..(Len(SkeletonList) - 1) |->
                             RenamedBoneInfo(Heap, SkeletonList[i + 1])]]

\* lines 772-801
MergeSkeletal ==
    /\ pc = "MergeSkeletal"
    /\ LET SkeletonsToMergeCopy == SelectSeq(Params.SkeletonsToMerge, LAMBDA x : x # NullPtr)
       IN IF Len(SkeletonsToMergeCopy) <= 1
          THEN UNCHANGED Assets
          ELSE Assets' = ModifySameBoneName(DuplicateSkeletons(Assets, SkeletonsToMergeCopy, 0),
                                            SkeletonsToMergeCopy).Heap
    /\ pc' = "Finished"
    /\ UNCHANGED <<ActorClass, SkelMeshes, entry, Params, SkeletalNodes, PathIsValid, MeshesToMerge, MeshParams,
                   ToMergeSkeletons, SkeletonIndex, BoneIndex, bMergeSkeletonsFailed,
                   bConflictivePoseFound, BoneNamesToPathHash, BoneNamesToBonePose,
                   HashToSockets, HashToVirtualBones, UniqueCurveNames,
                   GroupToSlotNames, UniqueBlendProfiles, MergedBoneHierarchy, GeneratedSkeleton,
                   ResultMesh, PackageCreated, SavePackageCalls, AddBoneCalls, Log, PathKeys>>

\* faulty variant: the null check of the merge result is missing
SavesResultAlways(Result) == TRUE

\* whether the wrapper goes on to UPackage::SavePackage (lines 421, 463)
SavesResult(Result) == Result.valid

\* lines 421-438 and 463-500
SaveAfterMerge ==
    /\ pc = "SaveAfterMerge"
    /\ SavePackageCalls' = IF SavesResult(ResultMesh) THEN SavePackageCalls + 1
                           ELSE SavePackageCalls
    /\ pc' = "Finished"
    /\ UNCHANGED <<ActorClass, SkelMeshes, entry, Params, SkeletalNodes, PathIsValid, MeshesToMerge, MeshParams,
                   Assets,
                   ToMergeSkeletons, SkeletonIndex, BoneIndex, bMergeSkeletonsFailed,
                   bConflictivePoseFound, BoneNamesToPathHash, BoneNamesToBonePose,
                   HashToSockets, HashToVirtualBones, UniqueCurveNames,
                   GroupToSlotNames, UniqueBlendProfiles, MergedBoneHierarchy, GeneratedSkeleton, ResultMesh,
                   PackageCreated, AddBoneCalls, Log, PathKeys>>

--------------------------------------------------------------------------
(* FMergedBoneHierarchy used directly: any AddBone calls, then PopulateSkeleton *)

DriverNames == {"A", "B", "C"}

\* the parent paths a caller can name: the root parent hash or the path of a
\* bone recorded so far
DriverPaths(H) == {RootParentHash} \cup {H.PathToBoneNames[n] : n \in DOMAIN H.PathToBoneNames}

CallAddBone ==
    /\ pc = "Driving"
    /\ AddBoneCalls < MaxAddBone
    /\ \E Name \in DriverNames, PathHash \in DriverPaths(MergedBoneHierarchy) :
           MergedBoneHierarchy' = AddBone(MergedBoneHierarchy, Name, Pose(Name), PathHash)
    /\ AddBoneCalls' = AddBoneCalls + 1
    /\ UNCHANGED <<ActorClass, SkelMeshes, entry, pc, Params, SkeletalNodes, PathIsValid, MeshesToMerge, MeshParams,
                   Assets,
                   ToMergeSkeletons, SkeletonIndex, BoneIndex, bMergeSkeletonsFailed,
                   bConflictivePoseFound, BoneNamesToPathHash, BoneNamesToBonePose,
                   HashToSockets, HashToVirtualBones, UniqueCurveNames,
                   GroupToSlotNames, UniqueBlendProfiles, GeneratedSkeleton, ResultMesh, PackageCreated,
                   SavePackageCalls, Log, PathKeys>>

CallPopulateSkeleton ==
    /\ pc = "Driving"
    /\ GeneratedSkeleton' = PopulateSkeleton(MergedBoneHierarchy, NewSkeleton)
    /\ pc' = IF GeneratedSkeleton'.crashed THEN "Crashed" ELSE "Finished"
    /\ ResultMesh' = IF GeneratedSkeleton'.crashed THEN ResultMesh ELSE GeneratedSkeleton'
    /\ UNCHANGED <<ActorClass, SkelMeshes, entry, Params, SkeletalNodes, PathIsValid, MeshesToMerge, MeshParams,
                   Assets,
                   ToMergeSkeletons, SkeletonIndex, BoneIndex, bMergeSkeletonsFailed,
                   bConflictivePoseFound, BoneNamesToPathHash, BoneNamesToBonePose,
                   HashToSockets, HashToVirtualBones, UniqueCurveNames,
                   GroupToSlotNames, UniqueBlendProfiles, MergedBoneHierarchy, PackageCreated,
                   SavePackageCalls, AddBoneCalls, Log, PathKeys>>

--------------------------------------------------------------------------
(* GetSkeletalMeshByClass called with a class *)

\* lines 1260-1290; line 626 dereferences the class
CallGetSkeletalMeshByClass ==
    /\ pc = "GetSkeletalMeshByClass"
    /\ IF ActorClass = NullClass
       THEN pc' = "Crashed" /\ UNCHANGED SkelMeshes
       ELSE pc' = "Finished" /\ SkelMeshes' = GetSkeletalMeshByClass(ActorClass)
    /\ UNCHANGED <<entry, Params, SkeletalNodes, PathIsValid, MeshesToMerge, MeshParams,
                   Assets,
                   ToMergeSkeletons, SkeletonIndex, BoneIndex, bMergeSkeletonsFailed,
                   bConflictivePoseFound, BoneNamesToPathHash, BoneNamesToBonePose,
                   HashToSockets, HashToVirtualBones, UniqueCurveNames,
                   GroupToSlotNames, UniqueBlendProfiles, MergedBoneHierarchy,
                   GeneratedSkeleton, ResultMesh, PackageCreated, SavePackageCalls,
                   AddBoneCalls, Log, PathKeys, ActorClass>>

--------------------------------------------------------------------------

Next ==
    \/ Validate
    \/ AccumulateBone
    \/ SourceEnd
    \/ FinishAccumulate
    \/ Populate
    \/ MergeAncillary
    \/ SaveBegin
    \/ MergeMeshes
    \/ MergeSkeletal
    \/ SaveAfterMerge
    \/ CallAddBone
    \/ CallPopulateSkeleton
    \/ CallGetSkeletalMeshByClass

Spec == Init /\ [][Next]_vars

\* a call runs on one thread and goes on while it has a next statement
FairSpec == Init /\ [][Next]_vars /\ WF_vars(Next)

--------------------------------------------------------------------------
(* Claims *)

MergeEntry == entry \in {"MergeSkeletons", "SaveMergeSkeletons"}

\* MergeSkeletons was called and has returned to its caller
MergeReturned == MergeEntry /\ PathIsValid /\ pc \in {"Finished", "SaveAfterMerge"}

\* the skeletons the error of line 931 was logged for
FlaggedSources ==
    {Log[i].Skeleton : i \in {j \in 1..Len(Log) : Log[j].Message = "invalid bone chain"}}

\* the names from the root down to bone Idx (C++ index) of a source skeleton
RECURSIVE ChainOf(_, _)
ChainOf(Bones, Idx) ==
    IF Bones[Idx + 1].ParentIndex = INDEX_NONE THEN <<Bones[Idx + 1].Name>>
    ELSE Append(ChainOf(Bones, Bones[Idx + 1].ParentIndex), Bones[Idx + 1].Name)

BoneNamesOf(Sk) == {Sk.Bones[i].Name : i \in 1..Len(Sk.Bones)}

\* number of bones recorded under the root parent path hash(0,0)
RootCandidates(H) ==
    IF RootParentHash \in DOMAIN H.PathHashToBoneNames
    THEN Len(H.PathHashToBoneNames[RootParentHash]) ELSE 0

\* C1: PopulateSkeleton, and the merge with it, produces a skeleton only when
\* exactly one accumulated bone has the root parent path key hash(0,0); with
\* zero or with two or more such bones no skeleton is produced
C1_RootUniqueness ==
    GeneratedSkeleton.valid /\ Len(GeneratedSkeleton.Bones) > 0
        => RootCandidates(MergedBoneHierarchy) = 1

\* C2: in the emitted bone list the first bone has no parent and every other
\* bone's parent index refers to a bone emitted before it
C2_ParentsEmittedEarlier ==
    \A i \in 1..Len(GeneratedSkeleton.Bones) :
        IF i = 1 THEN GeneratedSkeleton.Bones[i].ParentIndex = INDEX_NONE
        ELSE /\ GeneratedSkeleton.Bones[i].ParentIndex >= 0
             /\ GeneratedSkeleton.Bones[i].ParentIndex < i - 1

\* C2 witness: AddBone calls followed by PopulateSkeleton gave a chain of three
C2_Witness ==
    /\ entry = "Hierarchy" /\ pc = "Finished"
    /\ Len(GeneratedSkeleton.Bones) = 3
    /\ GeneratedSkeleton.Bones[3].ParentIndex = 1

\* C3 (as claimed): with check_compatibility, when one source is incompatible
\* and another source is not, the merge still returns a skeleton
C3_SkipsOnlyIncompatibleSource ==
    /\ MergeReturned
    /\ Params.bCheckSkeletonsCompatibility
    /\ FlaggedSources # {}
    /\ Cardinality(FlaggedSources) < Len(ToMergeSkeletons)
    => ResultMesh.valid

\* C3 (amended): once a source has been found incompatible no skeleton is
\* generated, returned or saved, whatever the other sources are
C3_AnyIncompatibleSourceFails ==
    MergeEntry /\ (bMergeSkeletonsFailed \/ FlaggedSources # {})
        => /\ Params.bCheckSkeletonsCompatibility
           /\ ~GeneratedSkeleton.valid
           /\ ~ResultMesh.valid
           /\ SavePackageCalls = 0
           /\ pc \notin {"Populating", "MergingAncillary"}

\* C3 witness: two sources, the second flagged, the merge returned nothing
C3_Witness ==
    /\ MergeReturned
    /\ Len(ToMergeSkeletons) = 2
    /\ FlaggedSources = {ToMergeSkeletons[2]}
    /\ ~ResultMesh.valid

\* two skeletons with the same root name in which some bone name has
\* different ancestor chains
ConflictingChains(S1, S2) ==
    /\ S1.Bones # <<>> /\ S2.Bones # <<>>
    /\ S1.Bones[1].Name = S2.Bones[1].Name
    /\ \E i \in 1..Len(S1.Bones), j \in 1..Len(S2.Bones) :
           /\ S1.Bones[i].Name = S2.Bones[j].Name
           /\ ChainOf(S1.Bones, i - 1) # ChainOf(S2.Bones, j - 1)

\* C4: two sources in which a same-named bone has different ancestor chains
\* are flagged (error logged, failure recorded) once the second has been
\* gone through when check_compatibility is set; when it is not set nothing
\* is ever flagged and the poses of the second source are the ones recorded
C4_CompatibilityDetection ==
    /\ ~Params.bCheckSkeletonsCompatibility
           => ~bMergeSkeletonsFailed /\ FlaggedSources = {}
    /\ /\ MergeEntry
       /\ Len(ToMergeSkeletons) = 2
       /\ SkeletonIndex = 2
       /\ ConflictingChains(Skeletons[ToMergeSkeletons[1]], Skeletons[ToMergeSkeletons[2]])
       => IF Params.bCheckSkeletonsCompatibility
          THEN bMergeSkeletonsFailed /\ FlaggedSources = {ToMergeSkeletons[2]}
          ELSE LET S2 == Skeletons[ToMergeSkeletons[2]]
               IN \A j \in 1..Len(S2.Bones) :
                      MergedBoneHierarchy.BoneNamePose[MergedBoneName(S2.Bones[j])]
                          = S2.BonePoses[j]

\* C4 witness: Root/Arm/Hand then Root/Leg/Hand went through without the
\* check, and Hand carries the pose of the second source
C4_Witness ==
    /\ MergeReturned
    /\ ToMergeSkeletons = <<"SkC", "SkD">>
    /\ ~Params.bCheckSkeletonsCompatibility
    /\ "Hand/1" \in DOMAIN MergedBoneHierarchy.BoneNamePose
    /\ MergedBoneHierarchy.BoneNamePose["Hand/1"] = Skeletons["SkD"].BonePoses[3]

\* the ancestor chain of the bone a history record is about
RecordChain(R) == ChainOf(Skeletons[R.Skeleton].Bones, R.Bone)

\* the path hash given to the root bone of a source skeleton
RootKeyOf(SkeletonId) ==
    (CHOOSE R \in PathKeys : R.Skeleton = SkeletonId /\ R.Bone = 0).PathHash

\* C5 (as claimed): bones with identical ancestor-name chains are given
\* equal path hashes, whatever source they come from
C5_EqualChainsEqualKeys ==
    \A R1, R2 \in PathKeys :
        RecordChain(R1) = RecordChain(R2) => R1.PathHash = R2.PathHash

\* C5 (amended): bones with identical ancestor-name chains are given equal
\* path hashes when the roots of their sources were given the same path hash
C5_EqualChainsEqualKeysUnderSameRoot ==
    \A R1, R2 \in PathKeys :
        /\ RecordChain(R1) = RecordChain(R2)
        /\ RootKeyOf(R1.Skeleton) = RootKeyOf(R2.Skeleton)
        => R1.PathHash = R2.PathHash

\* C5 witness: Root/Spine of two different sources, both roots under hash(0,0)
C5_Witness ==
    \E R1, R2 \in PathKeys :
        /\ R1.Skeleton # R2.Skeleton
        /\ RecordChain(R1) = RecordChain(R2)
        /\ Len(RecordChain(R1)) = 2
        /\ RootKeyOf(R1.Skeleton) = RootKeyOf(R2.Skeleton)
        /\ R1.PathHash = R2.PathHash

ValidSources == {Params.SkeletonsToMerge[i] : i \in 1..Len(Params.SkeletonsToMerge)} \ {NullPtr}

NothingAccumulated ==
    /\ MergedBoneHierarchy = EmptyHierarchy
    /\ PathKeys = {}
    /\ ~GeneratedSkeleton.valid
    /\ ~ResultMesh.valid

C7_ScenarioA ==
    /\ MergeReturned
    /\ Params.SkeletonsToMerge = <<"SkA", "SkB">>
    /\ ~Params.bCheckSkeletonsCompatibility
    => /\ ResultMesh.valid
       /\ Len(ResultMesh.Bones) = 4
       /\ BoneNamesOf(ResultMesh) = {"Root", "Spine", "Head", "Tail"}
       /\ \A i \in 1..Len(ResultMesh.Bones) :
              ResultMesh.Bones[i].Name \in {"Head", "Tail"}
                  => ResultMesh.Bones[i].ParentIndex = FindBoneIndex(ResultMesh.Bones, "Spine")

\* C8: a skeleton merged with itself comes out with the same bone count, the
\* same bone names and the same reference poses
C8_SelfMergeReproduces ==
    /\ MergeReturned
    /\ Len(Params.SkeletonsToMerge) = 2
    /\ Params.SkeletonsToMerge[1] = Params.SkeletonsToMerge[2]
    /\ Params.SkeletonsToMerge[1] # NullPtr
    /\ Skeletons[Params.SkeletonsToMerge[1]].Bones # <<>>
    => LET S == Skeletons[Params.SkeletonsToMerge[1]]
       IN /\ ResultMesh.valid
          /\ Len(ResultMesh.Bones) = Len(S.Bones)
          /\ \A i \in 1..Len(S.Bones) :
                 \E j \in 1..Len(ResultMesh.Bones) :
                     /\ ResultMesh.Bones[j].Name = S.Bones[i].Name
                     /\ ResultMesh.Bones[j].Pose = S.BonePoses[i]

SocketsFor(Sockets, SocketName, BoneName) ==
    {i \in 1..Len(Sockets) :
        Sockets[i].SocketName = SocketName /\ Sockets[i].BoneName = BoneName}

\* C9: with merge_sockets, every (socket name, bone name) pair declared by a
\* merged source, also one declared by several sources, has exactly one
\* socket in the returned skeleton
C9_OneSocketPerNameAndBone ==
    MergeReturned /\ ResultMesh.valid /\ Params.bMergeSockets
        => \A k \in 1..Len(ToMergeSkeletons) :
               LET Declared == Skeletons[ToMergeSkeletons[k]].Sockets
               IN \A i \in 1..Len(Declared) :
                      Cardinality(SocketsFor(ResultMesh.Sockets, Declared[i].SocketName,
                                             Declared[i].BoneName)) = 1

\* C9 witness: two sources that both declare socket Grip on bone Spine
C9_Witness ==
    /\ MergeReturned /\ ResultMesh.valid /\ Params.bMergeSockets
    /\ ToMergeSkeletons = <<"SkA", "SkB">>
    /\ Cardinality(SocketsFor(ResultMesh.Sockets, "Grip", "Spine")) = 1

\* C10: UPackage::SavePackage is called at most once in a call, only when the
\* export path was valid, the package created and the merge returned a result
C10_SaveOnceAfterSuccess ==
    /\ SavePackageCalls <= 1
    /\ SavePackageCalls = 1
           => /\ entry \in {"SaveMergeSkeletons", "SaveMergeMeshes"}
              /\ pc = "Finished"
              /\ PathIsValid /\ PackageCreated
              /\ ResultMesh.valid
    /\ ~PathIsValid \/ (pc = "Finished" /\ ~ResultMesh.valid) => SavePackageCalls = 0

\* C10 witness: a merged skeleton has been saved
C10_Witness ==
    entry = "SaveMergeSkeletons" /\ SavePackageCalls = 1 /\ Len(ResultMesh.Bones) > 1

ResultBoneNames == [i \in 1..Len(ResultMesh.Bones) |-> ResultMesh.Bones[i].Name]

\* C11: Scenario B, Root/Spine/Head merged with Root/Spine2/Spine/Tail without
\* the compatibility check, returns a skeleton of five bones
C11_ScenarioB ==
    /\ MergeReturned
    /\ Params.SkeletonsToMerge = <<"SkA", "SkF">>
    /\ ~Params.bCheckSkeletonsCompatibility
    => ResultMesh.valid /\ Len(ResultMesh.Bones) = 5

\* the secondary source (second of two) has a scene node attached to a bone
\* of the primary source, and the merge has returned a skeleton
AttachedSecondary ==
    /\ MergeReturned /\ ResultMesh.valid
    /\ Len(ToMergeSkeletons) = 2
    /\ Skeletons[ToMergeSkeletons[2]].Bones # <<>>
    /\ FirstNodeFor(SkeletalNodes, ToMergeSkeletons[2]) # 0
    /\ SkeletalNodes[FirstNodeFor(SkeletalNodes, ToMergeSkeletons[2])].AttachToName
           \in BoneNamesOf(Skeletons[ToMergeSkeletons[1]])

\* the merged root bone of the secondary source is a child of the merged
\* attach bone
SecondaryRootUnderAttachBone ==
    LET Node == SkeletalNodes[FirstNodeFor(SkeletalNodes, ToMergeSkeletons[2])]
        RootIdx == FindBoneIndex(ResultMesh.Bones,
                                 MergedBoneName(Skeletons[ToMergeSkeletons[2]].Bones[1]))
    IN /\ RootIdx # INDEX_NONE
       /\ ResultMesh.Bones[RootIdx + 1].ParentIndex
              = FindBoneIndex(ResultMesh.Bones, PathAppend(Node.AttachToName, "1"))
       /\ ResultMesh.Bones[RootIdx + 1].ParentIndex # INDEX_NONE

RECURSIVE DeclaredSockets(_)
DeclaredSockets(Ids) ==
    IF Ids = <<>> THEN <<>>
    ELSE Skeletons[Head(Ids)].Sockets \o DeclaredSockets(Tail(Ids))

\* the sockets of the returned skeleton for a name and a bone are exactly the
\* declaration found at position Pick(matching positions) of the merge order
SocketsTakenFrom(Pick(_)) ==
    LET Declared == DeclaredSockets(ToMergeSkeletons)
    IN \A i \in 1..Len(Declared) :
           LET Same == SocketsFor(Declared, Declared[i].SocketName, Declared[i].BoneName)
               Out == SocketsFor(ResultMesh.Sockets, Declared[i].SocketName,
                                 Declared[i].BoneName)
           IN /\ Out # {}
              /\ \A o \in Out : ResultMesh.Sockets[o] = Declared[Pick(Same)]

FirstOf(S) == CHOOSE x \in S : \A y \in S : x <= y

LastOf(S) == CHOOSE x \in S : \A y \in S : y <= x

\* C13 (as claimed): the socket written for a (socket name, bone name) pair
\* is the first declaration of the pair in merge order
C13_FirstSocketKept ==
    MergeReturned /\ ResultMesh.valid /\ Params.bMergeSockets => SocketsTakenFrom(FirstOf)

\* C13 (amended): the socket written for a (socket name, bone name) pair is
\* the last declaration of the pair in merge order
C13_LastSocketKept ==
    MergeReturned /\ ResultMesh.valid /\ Params.bMergeSockets => SocketsTakenFrom(LastOf)

\* C13 witness: Grip on Spine, declared by both sources, has the location the
\* second source gives it
C13_Witness ==
    /\ MergeReturned /\ ResultMesh.valid /\ Params.bMergeSockets
    /\ ToMergeSkeletons = <<"SkA", "SkB">>
    /\ \E i \in 1..Len(ResultMesh.Sockets) :
           ResultMesh.Sockets[i] = Socket("Grip", "Spine", "gB")

\* the socket map and the virtual bone map MergeSkeletons builds from a list
\* of sources (lines 991-1008)
RECURSIVE SocketsOfSources(_, _)
SocketsOfSources(Map, Ids) ==
    IF Ids = <<>> THEN Map
    ELSE SocketsOfSources(AccumulateSockets(Map, Skeletons[Head(Ids)].Sockets), Tail(Ids))

RECURSIVE VirtualBonesOfSources(_, _)
VirtualBonesOfSources(Map, Ids) ==
    IF Ids = <<>> THEN Map
    ELSE VirtualBonesOfSources(
             AccumulateVirtualBones(Map, Skeletons[Head(Ids)].VirtualBones), Tail(Ids))

Range(Seq_) == {Seq_[i] : i \in 1..Len(Seq_)}

MapValues(Map) == {Map[i].Value : i \in 1..Len(Map)}

MapKeys(Map) == {Map[i].Key : i \in 1..Len(Map)}

\* the orders in which the sources of a list without repetition can be given
SourceOrders(Seq_) ==
    {q \in [1..Len(Seq_) -> Range(Seq_)] : Range(q) = Range(Seq_)}

SocketKey(S) == <<S.SocketName, S.BoneName>>

VirtualBoneKey(VB) == <<VB.SourceBoneName, VB.TargetBoneName>>

AncillaryReturned ==
    /\ MergeReturned /\ ResultMesh.valid
    /\ Params.bMergeSockets /\ Params.bMergeVirtualBones

\* C14 (as claimed): the sockets and the virtual bones of the returned
\* skeleton, with their data, are those of the merge of the same sources in
\* any other order
C14_AncillaryOrderIndependent ==
    AncillaryReturned
        => \A q \in SourceOrders(ToMergeSkeletons) :
               /\ Range(ResultMesh.Sockets) = MapValues(SocketsOfSources(<<>>, q))
               /\ Range(ResultMesh.VirtualBones) = MapValues(VirtualBonesOfSources(<<>>, q))

\* C14 (amended): the (socket name, bone name) pairs and the (source bone,
\* target bone) pairs of the returned skeleton are those of the merge of the
\* same sources in any other order
C14_AncillaryKeysOrderIndependent ==
    AncillaryReturned
        => \A q \in SourceOrders(ToMergeSkeletons) :
               /\ {SocketKey(x) : x \in Range(ResultMesh.Sockets)}
                      = {SocketKey(x) : x \in MapValues(SocketsOfSources(<<>>, q))}
               /\ {VirtualBoneKey(x) : x \in Range(ResultMesh.VirtualBones)}
                      = {VirtualBoneKey(x) : x \in MapValues(VirtualBonesOfSources(<<>>, q))}

\* C14 witness: two sources that both declare Grip on Spine and the virtual
\* bone Root-Spine; the returned skeleton has them with the second source's data
C14_Witness ==
    /\ AncillaryReturned
    /\ ToMergeSkeletons = <<"SkA", "SkB">>
    /\ Range(ResultMesh.VirtualBones)
           = {VirtualBone("Root", "Spine", "VB_b"), VirtualBone("Root", "Tail", "VB_t")}
    /\ Socket("Grip", "Spine", "gB") \in Range(ResultMesh.Sockets)

\* two different merged sources have a blend profile of the same name with
\* an entry for the same bone: Earlier is declared before Later
OverlappingEntries(Earlier, Later, Name, BoneName) ==
    \E i, j \in 1..Len(ToMergeSkeletons) :
        /\ i < j
        /\ \E p \in Range(Skeletons[ToMergeSkeletons[i]].BlendProfiles) :
               p.Name = Name /\ Earlier \in Range(p.ProfileEntries)
        /\ \E p \in Range(Skeletons[ToMergeSkeletons[j]].BlendProfiles) :
               p.Name = Name /\ Later \in Range(p.ProfileEntries)
        /\ Earlier.BoneName = BoneName /\ Later.BoneName = BoneName

AllBoneEntries ==
    UNION {Range(p.ProfileEntries) :
              p \in UNION {Range(Skeletons[id].BlendProfiles) : id \in SkeletonIds}}

\* C15: when two same-named blend profiles of different sources have an
\* entry for the same bone, the overlap is reported and the merged profile
\* keeps the blend scale of the earlier source for that bone
C15_BlendProfileConflictReported ==
    MergeReturned /\ ResultMesh.valid /\ Params.bMergeBlendProfiles
        => \A e1, e2 \in AllBoneEntries :
               \A p \in Range(ResultMesh.BlendProfiles) :
                   OverlappingEntries(e1, e2, p.Name, e1.BoneName)
                       => /\ \E r \in Range(Log) :
                                 /\ r.Message = "overlapping bone entries"
                                 /\ r.Skeleton = p.Name
                          /\ e1 \in Range(p.ProfileEntries)

\* the curves of the merged sources, in merge order
RECURSIVE DeclaredCurves(_)
DeclaredCurves(Ids) ==
    IF Ids = <<>> THEN <<>>
    ELSE Skeletons[Head(Ids)].Curves \o DeclaredCurves(Tail(Ids))

DeclaredSlots(GroupName) ==
    UNION {Range(g.SlotNames) :
              g \in {x \in UNION {Range(Skeletons[ToMergeSkeletons[k]].SlotGroups) :
                                     k \in 1..Len(ToMergeSkeletons)} :
                         x.GroupName = GroupName}}

DeclaredGroupNames ==
    {g.GroupName : g \in UNION {Range(Skeletons[ToMergeSkeletons[k]].SlotGroups) :
                                   k \in 1..Len(ToMergeSkeletons)}}

\* the slot names of a group of the returned skeleton
MergedSlots(GroupName) ==
    UNION {Range(g.SlotNames) : g \in {x \in Range(ResultMesh.SlotGroups) :
                                           x.GroupName = GroupName}}

SlotGroupsReturned == MergeReturned /\ ResultMesh.valid /\ Params.bMergeAnimSlotGroups

\* C17 (as claimed): the slots of every merged group are the union of the
\* slots the merged sources declare for that group name
C17_SlotGroupsUnion ==
    SlotGroupsReturned
        => \A g \in DeclaredGroupNames : MergedSlots(g) = DeclaredSlots(g)

\* C17 (amended): every declared group name is a group of the returned
\* skeleton with no slot but declared ones, every declared slot is in exactly
\* one group that declares it, and a group whose slots no other group name
\* declares has the union of its declared slots
C17_SlotGroupsUnionOfOwnSlots ==
    SlotGroupsReturned
        => /\ {g.GroupName : g \in Range(ResultMesh.SlotGroups)} = DeclaredGroupNames
           /\ \A g \in DeclaredGroupNames :
                  /\ MergedSlots(g) \subseteq DeclaredSlots(g)
                  /\ (\A h \in DeclaredGroupNames \ {g} :
                         DeclaredSlots(g) \cap DeclaredSlots(h) = {})
                         => MergedSlots(g) = DeclaredSlots(g)
                  /\ \A s \in DeclaredSlots(g) :
                         Cardinality({h \in DeclaredGroupNames : s \in MergedSlots(h)}) = 1

\* C17 witness: Upper is a slot of DefaultGroup in the first source and of
\* Extra in the second; the returned skeleton has it in Extra only
C17_Witness ==
    /\ SlotGroupsReturned
    /\ ToMergeSkeletons = <<"SkA", "SkB">>
    /\ MergedSlots("DefaultGroup") = {"DefaultSlot", "Lower"}
    /\ MergedSlots("Extra") = {"Upper"}

\* bone b (C++ index) of the k-th merged source has gone through the loop body
Processed(k, b) ==
    \E r \in PathKeys : r.Skeleton = ToMergeSkeletons[k] /\ r.Bone = b

KeyOf(k, b) ==
    (CHOOSE r \in PathKeys : r.Skeleton = ToMergeSkeletons[k] /\ r.Bone = b).PathHash

NameOf(k, b) == Skeletons[ToMergeSkeletons[k]].Bones[b + 1].Name

PoseOf(k, b) == Skeletons[ToMergeSkeletons[k]].BonePoses[b + 1]

BonesOf(k) ==
    IF ToMergeSkeletons[k] \in DOMAIN Skeletons
    THEN 0..(Len(Skeletons[ToMergeSkeletons[k]].Bones) - 1) ELSE {}

\* bone b of source j was recorded under the path hash its name had from bone
\* a of the earlier source i, with another reference pose
PoseConflict(i, a, j, b) ==
    /\ i < j
    /\ Processed(i, a) /\ Processed(j, b)
    /\ NameOf(i, a) = NameOf(j, b)
    /\ \A k \in (i + 1)..(j - 1) : \A c \in BonesOf(k) :
           ~(Processed(k, c) /\ NameOf(k, c) = NameOf(j, b))
    /\ KeyOf(i, a) = KeyOf(j, b)
    /\ PoseOf(i, a) # PoseOf(j, b)

\* the pose the hierarchy holds for the name of bone b of source j is that
\* bone's, unless a later source has recorded the name again
LaterPoseStored(j, b) ==
    (\A k \in (j + 1)..Len(ToMergeSkeletons) : \A c \in BonesOf(k) :
        ~(Processed(k, c) /\ NameOf(k, c) = NameOf(j, b)))
        => MergedBoneHierarchy.BoneNamePose[PathAppend(NameOf(j, b), "1")] = PoseOf(j, b)

PoseWarnings(SkeletonId) ==
    {n \in 1..Len(Log) : /\ Log[n].Message = "different reference pose"
                         /\ Log[n].Skeleton = SkeletonId}

AllPoseConflicts ==
    {c \in (1..Len(ToMergeSkeletons)) \X (0..3) \X (1..Len(ToMergeSkeletons)) \X (0..3) :
        /\ c[2] \in BonesOf(c[1]) /\ c[4] \in BonesOf(c[3])
        /\ PoseConflict(c[1], c[2], c[3], c[4])}

\* C18 (as claimed): a pose conflict logs a warning for the later source,
\* records no failure, and the later pose is the one stored
C18_PoseConflictWarned ==
    MergeEntry
        => \A c \in AllPoseConflicts :
               /\ PoseWarnings(ToMergeSkeletons[c[3]]) # {}
               /\ LaterPoseStored(c[3], c[4])
               /\ (FlaggedSources = {} => ~bMergeSkeletonsFailed)

\* C18 (amended): a pose conflict records no failure and the later pose is the
\* one stored; the warning is logged, once per source, only with
\* check_compatibility, and never without it
C18_PoseConflictWarnedUnderCheck ==
    MergeEntry
        => /\ \A c \in AllPoseConflicts :
                  /\ Params.bCheckSkeletonsCompatibility
                         => Cardinality(PoseWarnings(ToMergeSkeletons[c[3]])) = 1
                  /\ LaterPoseStored(c[3], c[4])
                  /\ (FlaggedSources = {} => ~bMergeSkeletonsFailed)
           /\ ~Params.bCheckSkeletonsCompatibility
                  => \A n \in 1..Len(Log) : Log[n].Message # "different reference pose"

\* C18 witness: Spine of the second source has the path hash of the first
\* source's Spine and another pose; the merge returned a skeleton with it
C18_Witness ==
    /\ MergeReturned /\ ResultMesh.valid
    /\ Params.bCheckSkeletonsCompatibility
    /\ ToMergeSkeletons = <<"SkA", "SkB">>
    /\ PoseConflict(1, 1, 2, 1)
    /\ PoseWarnings("SkB") # {}
    /\ ResultMesh.Bones[2] = [Name |-> "Spine/1", ParentIndex |-> 0, Pose |-> Pose("B1")]

\* C19: in every state of a merge call every object that existed when the
\* call was made (source skeletons, source meshes, the skeleton handed over in
\* the mesh merge parameters) has the contents it had then
C19_SourcesUnmodified ==
    \A id \in DOMAIN SourceAssets : id \in DOMAIN Assets /\ Assets[id] = SourceAssets[id]

\* C19 witness: MergeMeshes has added the bones of MeshW to the duplicate of
\* MeshA and has given it the new skeleton
C19_Witness ==
    /\ entry = "SaveMergeMeshes"
    /\ pc \in {"SaveAfterMerge", "Finished"}
    /\ MeshesToMerge = <<"MeshA", "MeshW">>
    /\ "CopyMesh" \in DOMAIN Assets
    /\ Assets["CopyMesh"].Skeleton = "SkM"
    /\ Assets["CopyMesh"].RefBones =
           <<Bone("Root", INDEX_NONE), Bone("Spine", 0), Bone("Head", 1),
             Bone("Hilt", 1), Bone("Blade", 3)>>
    /\ Assets["MeshA"] = MeshOf("SkA")

\* MergeSkeletons has been entered
MergeCalled == MergeEntry /\ pc = "Validating"

\* the two ways MergeSkeletons returns: a skeleton (Done) or nullptr (Failed)
MergeDone == MergeReturned /\ ResultMesh.valid

MergeFailed == MergeReturned /\ ~ResultMesh.valid

\* the call has come to its end by abort(): a fatal check() or an invalid dereference
MergeAborted == MergeEntry /\ pc = "Crashed"

\* the call has no further step: it has returned or it was aborted
CallOver == pc \in {"Finished", "Crashed"}

\* C20 (as claimed): when a call of MergeSkeletons has no further step it is
\* Done or Failed, with no more bones emitted than the sources have together
C20_EndsDoneOrFailed ==
    (MergeEntry /\ PathIsValid /\ CallOver)
        => /\ MergeDone \/ MergeFailed
           /\ Len(ResultMesh.Bones) <= TotalBones(ToMergeSkeletons)

\* the loop steps still to come from skeleton Idx on: its bones and its end
RECURSIVE StepsFrom(_, _)
StepsFrom(Ids, Idx) ==
    IF Idx >= Len(Ids) THEN 0 ELSE NumBonesOf(Ids, Idx) + 1 + StepsFrom(Ids, Idx + 1)

\* a bound on the steps a call still takes
\* the largest number of bones of a source skeleton
MostBones ==
    CHOOSE n \in 0..8 : /\ \A id \in SkeletonIds : Len(Skeletons[id].Bones) <= n
                        /\ \E id \in SkeletonIds : Len(Skeletons[id].Bones) = n

StepsLeft ==
    CASE pc = "SaveEntry" -> 7 + MaxSources * (MostBones + 1)
      [] pc \in {"Validating", "MergeMeshes", "MergeSkeletal"} ->
             6 + MaxSources * (MostBones + 1)
      [] pc = "Accumulating" -> 5 + StepsFrom(ToMergeSkeletons, SkeletonIndex) - BoneIndex
      [] pc = "SourceEnd" -> 5 + StepsFrom(ToMergeSkeletons, SkeletonIndex + 1) + 1
      [] pc = "LoopDone" -> 4
      [] pc = "Populating" -> 3
      [] pc = "MergingAncillary" -> 2
      [] pc = "Driving" -> 2 + MaxAddBone - AddBoneCalls
      [] pc \in {"SaveAfterMerge", "GetSkeletalMeshByClass"} -> 1
      [] OTHER -> 0

\* C20 (what holds): every step of a call lowers the bound on the steps left,
\* so no call runs for ever
C20_StepsDecrease == [][StepsLeft' < StepsLeft /\ StepsLeft' >= 0]_vars

\* C20 (what holds): the skeleton under construction never has more bones
\* than the sources have together
C20_BonesBounded ==
    (MergeEntry /\ ~Contains(ToMergeSkeletons, NullPtr))
        => /\ Len(GeneratedSkeleton.Bones) <= TotalBones(ToMergeSkeletons)
           /\ Len(ResultMesh.Bones) <= TotalBones(ToMergeSkeletons)

\* a call of MergeSkeletons with two skeletons and a scene node for each was
\* aborted in PopulateSkeleton
C20_AbortedInPopulate ==
    /\ MergeAborted
    /\ ~Contains(ToMergeSkeletons, NullPtr)
    /\ Len(ToMergeSkeletons) = 2
    /\ GeneratedSkeleton.crashed

\* the nodes that list the component of node Idx among their direct children
ParentNodesOf(Nodes, Idx) ==
    {i \in 1..Len(Nodes) : Contains(Nodes[i].ChildNodes, Nodes[Idx].ComponentTemplate)}

\* the secondary source (second of two) has a scene node without attach
\* target that is a direct child of another node, and the merge has returned
\* a skeleton
UnattachedSecondary ==
    /\ MergeReturned /\ ResultMesh.valid
    /\ Len(ToMergeSkeletons) = 2
    /\ Skeletons[ToMergeSkeletons[2]].Bones # <<>>
    /\ FirstNodeFor(SkeletalNodes, ToMergeSkeletons[2]) # 0
    /\ IsNone(SkeletalNodes[FirstNodeFor(SkeletalNodes, ToMergeSkeletons[2])].AttachToName)
    /\ ParentNodesOf(SkeletalNodes, FirstNodeFor(SkeletalNodes, ToMergeSkeletons[2])) # {}

\* the merged root bone of the secondary source is a child of the merged first
\* bone of the parent component's mesh
SecondaryRootUnderParentRoot ==
    LET Idx == FirstNodeFor(SkeletalNodes, ToMergeSkeletons[2])
        Parent == CHOOSE i \in ParentNodesOf(SkeletalNodes, Idx) :
                      \A j \in ParentNodesOf(SkeletalNodes, Idx) : i <= j
        ParentRoot == SkeletalNodes[Parent].Mesh.RefBones[1].Name
        RootIdx == FindBoneIndex(ResultMesh.Bones,
                                 MergedBoneName(Skeletons[ToMergeSkeletons[2]].Bones[1]))
    IN /\ RootIdx # INDEX_NONE
       /\ ResultMesh.Bones[RootIdx + 1].ParentIndex # INDEX_NONE
       /\ ResultMesh.Bones[ResultMesh.Bones[RootIdx + 1].ParentIndex + 1].Name
              \in {ParentRoot, PathAppend(ParentRoot, "1")}

\* C21: a secondary source whose node names no attach target has its root
\* bone under the first bone of the parent component in the merged skeleton
C21_FallbackAttachesToParentRoot ==
    UnattachedSecondary => SecondaryRootUnderParentRoot

\* for the root of the secondary source (second of two, its root named unlike
\* the primary root) neither an attach target nor a parent component resolves:
\* it has no scene node, or a node without attach target that is no node's child
UnresolvedSecondary ==
    /\ MergeEntry
    /\ Len(ToMergeSkeletons) = 2
    /\ ~Contains(ToMergeSkeletons, NullPtr)
    /\ Skeletons[ToMergeSkeletons[1]].Bones # <<>>
    /\ Skeletons[ToMergeSkeletons[2]].Bones # <<>>
    /\ Skeletons[ToMergeSkeletons[1]].Bones[1].Name # Skeletons[ToMergeSkeletons[2]].Bones[1].Name
    /\ LET Idx == FirstNodeFor(SkeletalNodes, ToMergeSkeletons[2])
       IN \/ Idx = 0
          \/ /\ IsNone(SkeletalNodes[Idx].AttachToName)
             /\ ParentNodesOf(SkeletalNodes, Idx) = {}

\* C22: the root of such a secondary source is recorded under the root parent
\* path hash(0,0), and the merge returns no skeleton
C22_UnresolvedRootFailsMerge ==
    UnresolvedSecondary
        => /\ Processed(2, 0) => KeyOf(2, 0) = RootParentHash
           /\ MergeReturned => ~ResultMesh.valid

\* the part of C22 that holds: without a scene node the root of the secondary
\* source is recorded under the root parent path hash(0,0)
C22_NodelessRootRecordedAsRoot ==
    (UnresolvedSecondary /\ FirstNodeFor(SkeletalNodes, ToMergeSkeletons[2]) = 0
        /\ Processed(2, 0))
        => KeyOf(2, 0) = RootParentHash

\* a merge of Hilt/Blade with Root/Spine/Tail, the latter without scene node,
\* has returned the bones of the former only
C22_ReturnedWithoutSecondary ==
    /\ UnresolvedSecondary /\ MergeReturned /\ ResultMesh.valid
    /\ ToMergeSkeletons = <<"SkW", "SkB">>
    /\ FirstNodeFor(SkeletalNodes, "SkB") = 0
    /\ KeyOf(2, 0) = RootParentHash
    /\ ResultBoneNames = <<"Hilt/1", "Blade/1">>

\* the bone loop of the current source has just been left by the break of
\* line 931, at bone BoneIndex
MismatchJustFound ==
    /\ MergeEntry
    /\ pc = "SourceEnd"
    /\ ToMergeSkeletons[SkeletonIndex + 1] \in FlaggedSources

\* the path hash the bone loop computes for bone b of the current source
CurrentKeyOf(b) ==
    LET SkeletonId == ToMergeSkeletons[SkeletonIndex + 1]
        Bones == Skeletons[SkeletonId].Bones
        R == ResolveAttach(SkeletalNodes, SkeletonIndex, SkeletonId, Bones, Bones[b + 1])
    IN BonePathHashOf(BoneNamesToPathHash, MergedBoneName(Bones[b + 1]),
                      R.ParentName, R.ParentHash)

\* bone b of the k-th source is in the merged bone hierarchy as it was added
RecordedInHierarchy(k, b) ==
    LET Name == MergedBoneName(Skeletons[ToMergeSkeletons[k]].Bones[b + 1])
    IN /\ Name \in DOMAIN MergedBoneHierarchy.BoneNamePose
       /\ Name \in DOMAIN MergedBoneHierarchy.PathToBoneNames
       /\ KeyOf(k, b) \in DOMAIN MergedBoneHierarchy.PathHashToBoneNames
       /\ Contains(MergedBoneHierarchy.PathHashToBoneNames[KeyOf(k, b)], Name)

\* the names the sources have added to the hierarchy so far
ProcessedNames ==
    {MergedBoneName(Skeletons[r.Skeleton].Bones[r.Bone + 1]) : r \in PathKeys}

\* C23: with check_compatibility, a path hash mismatch at bone k of a source
\* leaves the bones before k of that source in the merged bone hierarchy and
\* adds neither bone k nor a later bone of it
C23_MismatchKeepsEarlierBones ==
    /\ MismatchJustFound
           => LET j == SkeletonIndex + 1
                  Name == MergedBoneName(Skeletons[ToMergeSkeletons[j]].Bones[BoneIndex + 1])
              IN /\ Params.bCheckSkeletonsCompatibility
                 /\ bMergeSkeletonsFailed
                 /\ BoneIndex \in BonesOf(j)
                 /\ Name \in DOMAIN BoneNamesToPathHash
                 /\ BoneNamesToPathHash[Name] # CurrentKeyOf(BoneIndex)
                 /\ \A b \in BonesOf(j) :
                        IF b < BoneIndex
                        THEN Processed(j, b) /\ RecordedInHierarchy(j, b)
                        ELSE ~Processed(j, b)
    /\ MergeEntry
           => /\ \A j \in 1..Len(ToMergeSkeletons) :
                     ToMergeSkeletons[j] \in FlaggedSources
                         => /\ \E b \in BonesOf(j) : ~Processed(j, b)
                            /\ \A b \in BonesOf(j) :
                                   Processed(j, b)
                                       => /\ RecordedInHierarchy(j, b)
                                          /\ \A a \in 0..(b - 1) : Processed(j, a)
              /\ DOMAIN MergedBoneHierarchy.BoneNamePose = ProcessedNames

\* C23 witness: Root/Leg/Hand after Root/Arm/Hand with the check: the mismatch
\* is at Hand, Root and Leg of the second source are in the hierarchy
C23_Witness ==
    /\ MismatchJustFound
    /\ ToMergeSkeletons = <<"SkC", "SkD">>
    /\ BoneIndex = 2
    /\ RecordedInHierarchy(2, 0) /\ RecordedInHierarchy(2, 1)
    /\ MergedBoneHierarchy.BoneNamePose["Leg/1"] = Pose("D1")
    /\ DOMAIN MergedBoneHierarchy.BoneNamePose = {"Root/1", "Arm/1", "Hand/1", "Leg/1"}

\* the root bone of the secondary source (second of two) went through the bone
\* loop, its scene node naming a bone of the primary source as attach target
GraftedRootProcessed ==
    /\ MergeEntry
    /\ Len(ToMergeSkeletons) = 2
    /\ ~Contains(ToMergeSkeletons, NullPtr)
    /\ Processed(2, 0)
    /\ FirstNodeFor(SkeletalNodes, ToMergeSkeletons[2]) # 0
    /\ SkeletalNodes[FirstNodeFor(SkeletalNodes, ToMergeSkeletons[2])].AttachToName
           \in BoneNamesOf(Skeletons[ToMergeSkeletons[1]])

\* the rest transforms of the attach parent bone: the pose of the primary
\* skeleton and, where the primary has a scene node, that of its mesh
AttachParentTransforms ==
    LET Node == SkeletalNodes[FirstNodeFor(SkeletalNodes, ToMergeSkeletons[2])]
        Primary == Skeletons[ToMergeSkeletons[1]]
        Idx == FindBoneIndex(Primary.Bones, Node.AttachToName)
        PrimaryNode == FirstNodeFor(SkeletalNodes, ToMergeSkeletons[1])
    IN {Primary.BonePoses[Idx + 1]}
           \cup (IF PrimaryNode = 0 THEN {}
                 ELSE {SkeletalNodes[PrimaryNode].Mesh.RefPoses[Idx + 1]})

\* the transform the hierarchy holds for the root bone of the secondary source
StoredRootTransform ==
    MergedBoneHierarchy.BoneNamePose[MergedBoneName(Skeletons[ToMergeSkeletons[2]].Bones[1])]

\* C24: the stored location and rotation of a grafted secondary root are the
\* owning component's relative transform applied to the rest transform of the
\* attach parent bone; the stored scale is that of the bone's source pose
C24_GraftedRootRebased ==
    GraftedRootProcessed
        => LET Node == SkeletalNodes[FirstNodeFor(SkeletalNodes, ToMergeSkeletons[2])]
               T_rel == Node.RelativeTransform
           IN /\ \E T_parent \in AttachParentTransforms :
                     /\ StoredRootTransform.Location
                            = TransformPosition(T_rel, T_parent.Location)
                     /\ StoredRootTransform.Rotation
                            = TransformRotation(T_rel, T_parent.Rotation)
              /\ StoredRootTransform.Scale = PoseOf(2, 0).Scale

\* what is stored instead: the source pose of the bone as it is
C24_GraftedRootKeepsSourcePose ==
    GraftedRootProcessed => StoredRootTransform = PoseOf(2, 0)

\* Hilt of Hilt/Blade, attached to Spine of Root/Spine/Head, is stored with
\* its source pose
C24_StoredUnrebased ==
    /\ GraftedRootProcessed
    /\ ToMergeSkeletons = <<"SkA", "SkW">>
    /\ SkeletalNodes[FirstNodeFor(SkeletalNodes, "SkW")].AttachToName = "Spine"
    /\ StoredRootTransform = Pose("W0")

\* the phase of MergeSkeletons a position belongs to; 5 is the return to the
\* caller (Done or Failed), 6 the abort, 0 a position outside MergeSkeletons
PhaseOf(Position) ==
    CASE Position = "Validating" -> 1
      [] Position \in {"Accumulating", "SourceEnd", "LoopDone"} -> 2
      [] Position = "Populating" -> 3
      [] Position = "MergingAncillary" -> 4
      [] Position \in {"Finished", "SaveAfterMerge"} -> 5
      [] Position = "Crashed" -> 6
      [] OTHER -> 0

HasAncillary(Sk) ==
    \/ Sk.Sockets # <<>> \/ Sk.VirtualBones # <<>> \/ Sk.Curves # <<>>
    \/ Sk.SlotGroups # <<>> \/ Sk.BlendProfiles # <<>>

\* phase order: a step of MergeSkeletons stays in its phase, goes on to
\* the next, or ends the call; Populating is entered from Accumulating only,
\* Merging-Ancillary from Populating only, and a skeleton is returned from
\* Merging-Ancillary only
PhaseOrder ==
    [][(MergeEntry /\ PhaseOf(pc) \in 1..4)
           => /\ PhaseOf(pc') \in {PhaseOf(pc), PhaseOf(pc) + 1, 5, 6}
              /\ (PhaseOf(pc') = 5 /\ ResultMesh'.valid) => PhaseOf(pc) = 4
              /\ PhaseOf(pc) = 4 => PhaseOf(pc') = 5 /\ ResultMesh' = GeneratedSkeleton']_vars

\* phase states: the skeleton object exists only once every source has been
\* accumulated without failure; it has no bone before Populating is left, its
\* bones and no ancillary data in Merging-Ancillary; nothing is returned
\* before the end, and nothing at all after a failure
PhaseStates ==
    MergeEntry
        => /\ GeneratedSkeleton.valid
                  => /\ PhaseOf(pc) \in 3..6
                     /\ ~bMergeSkeletonsFailed
                     /\ SkeletonIndex = Len(ToMergeSkeletons)
                     /\ ToMergeSkeletons # <<>>
           /\ PhaseOf(pc) \in {1, 2} => GeneratedSkeleton = NullSkeleton
           /\ PhaseOf(pc) = 3 => GeneratedSkeleton = NewSkeleton
           /\ PhaseOf(pc) = 4
                  => /\ GeneratedSkeleton = PopulateSkeleton(MergedBoneHierarchy, NewSkeleton)
                     /\ ~HasAncillary(GeneratedSkeleton)
           /\ PhaseOf(pc) \in 0..4 => ResultMesh = NullSkeleton
           /\ ResultMesh.valid => ResultMesh = GeneratedSkeleton /\ PhaseOf(pc) = 5
           /\ (bMergeSkeletonsFailed \/ ~GeneratedSkeleton.valid) => ~ResultMesh.valid

\* C25: MergeSkeletons goes through Validating, Accumulating, Populating,
\* Merging-Ancillary and Done in this order; the output skeleton is created
\* after all sources were accumulated without failure, populated before any
\* ancillary data is written into it, and not returned on a failing path
C25_PhasesInOrder == []PhaseStates /\ PhaseOrder

\* C25 witness: a merge with sockets went through all phases and returned a
\* skeleton with bones and sockets
C25_Witness ==
    /\ MergeReturned /\ ResultMesh.valid
    /\ Params.bMergeSockets
    /\ Len(ToMergeSkeletons) = 2
    /\ ResultMesh.Bones # <<>>
    /\ ResultMesh.Sockets # <<>>
    /\ ResultMesh = GeneratedSkeleton

--------------------------------------------------------------------------
(* C26 *)

GetSkeletalMeshByClassReturned == entry = "GetSkeletalMeshByClass" /\ pc = "Finished"

\* the skeletal mesh components of the construction-script nodes of a class
\* and of its parent blueprint classes
RECURSIVE SkeletalComponentsOf(_)
SkeletalComponentsOf(Class) ==
    IF ~Class.Generated THEN {}
    ELSE SkeletalComponentsOf(Class.SuperStruct)
         \cup {Class.AllNodes[i].ComponentTemplate : i \in
                  {j \in DOMAIN Class.AllNodes :
                      /\ Class.AllNodes[j].ComponentClass = "USkeletalMeshComponent"
                      /\ Class.AllNodes[j].ComponentTemplate # NullPtr}}

\* the positions, in the node order of the class, of the root nodes that have
\* a skeletal mesh component
RootPositions(Nodes) ==
    {i \in DOMAIN Nodes : Nodes[i].bIsRootNode /\ Nodes[i].ComponentTemplate # NullPtr}

FirstRootComponent(Nodes) ==
    Nodes[CHOOSE i \in RootPositions(Nodes) : \A j \in RootPositions(Nodes) : i <= j]
        .ComponentTemplate

\* C26: GetSkeletalMeshByClass returns each skeletal mesh component of the
\* construction-script nodes of the class exactly once, and when one of the
\* nodes is a root node its component is the first of the returned list,
\* wherever the node stands (the first such node when several are root nodes).
C26_EachOnceRootFirst ==
    GetSkeletalMeshByClassReturned =>
        /\ {SkelMeshes[i] : i \in DOMAIN SkelMeshes} = SkeletalComponentsOf(ActorClass)
        /\ Len(SkelMeshes) = Cardinality(SkeletalComponentsOf(ActorClass))
        /\ RootPositions(GetSkeletalNodesByClass(ActorClass)) # {} =>
               SkelMeshes[1] = FirstRootComponent(GetSkeletalNodesByClass(ActorClass))

\* a class on a parent blueprint class whose root node is the last of four
C26_Witness ==
    /\ GetSkeletalMeshByClassReturned
    /\ Len(SkelMeshes) = 4
    /\ RootPositions(GetSkeletalNodesByClass(ActorClass)) = {4}
    /\ SkelMeshes[1] = "C3"

--------------------------------------------------------------------------
(* C27 *)

\* the bone names handed to AddBone (line 983)
AccumulatedBoneNames == DOMAIN MergedBoneHierarchy.BoneNamePose

TimesEmitted(Sk, Name) == Cardinality({i \in DOMAIN Sk.Bones : Sk.Bones[i].Name = Name})

\* C27: whenever MergeSkeletons returns a skeleton, every bone name that was
\* accumulated through AddBone is in the emitted bone list exactly once.
C27_AccumulatedBonesEmittedOnce ==
    (MergeReturned /\ ResultMesh.valid) =>
        \A Name \in AccumulatedBoneNames : TimesEmitted(ResultMesh, Name) = 1

\* what holds: no accumulated bone name is emitted twice
C27_NoBoneEmittedTwice ==
    (MergeReturned /\ ResultMesh.valid) =>
        \A Name \in AccumulatedBoneNames : TimesEmitted(ResultMesh, Name) <= 1

\* a returned skeleton that lacks accumulated bones, with the check on
C27_BonesLostUnderCheck ==
    /\ MergeReturned /\ ResultMesh.valid
    /\ Params.bCheckSkeletonsCompatibility
    /\ \E Name \in AccumulatedBoneNames : TimesEmitted(ResultMesh, Name) = 0

--------------------------------------------------------------------------
(* C28 *)

\* the bone the loop is at
CurrentSkeletonId == ToMergeSkeletons[SkeletonIndex + 1]

CurrentBone == Skeletons[CurrentSkeletonId].Bones[BoneIndex + 1]

CurrentAttach ==
    ResolveAttach(SkeletalNodes, SkeletonIndex, CurrentSkeletonId,
                  Skeletons[CurrentSkeletonId].Bones, CurrentBone)

\* the iteration the loop is about to run reaches line 955 and reads BoneNode
BoneNodeWillBeRead ==
    /\ MergeEntry /\ pc = "Accumulating" /\ SkeletonIndex > 0
    /\ ~Incompatible(Params.bCheckSkeletonsCompatibility, BoneNamesToPathHash,
                     MergedBoneName(CurrentBone),
                     BonePathHashOf(BoneNamesToPathHash, MergedBoneName(CurrentBone),
                                    CurrentAttach.ParentName, CurrentAttach.ParentHash))

\* C28: every time BoneNode is dereferenced for a bone of a secondary skeleton
\* it has been assigned in that iteration, to a node whose component uses the
\* skeleton (root and non-root bones, with or without a matching node).
C28_BoneNodeAssignedWhenRead ==
    BoneNodeWillBeRead =>
        /\ CurrentAttach.assigned
        /\ SkeletalNodes[CurrentAttach.BoneNode].Mesh.Skeleton = CurrentSkeletonId

\* what holds: the pointer read is an assigned one exactly for a root bone
\* whose skeleton has a node, and then it is a node of that skeleton
C28_AssignedOnlyForRootWithNode ==
    BoneNodeWillBeRead =>
        /\ CurrentAttach.assigned <=>
               /\ CurrentBone.ParentIndex = INDEX_NONE
               /\ FirstNodeFor(SkeletalNodes, CurrentSkeletonId) # 0
        /\ CurrentAttach.assigned =>
               SkeletalNodes[CurrentAttach.BoneNode].Mesh.Skeleton = CurrentSkeletonId

\* a non-root bone of a secondary skeleton that has a node is about to be read
\* with BoneNode unassigned
C28_NonRootReadUnassigned ==
    /\ BoneNodeWillBeRead
    /\ CurrentBone.ParentIndex # INDEX_NONE
    /\ FirstNodeFor(SkeletalNodes, CurrentSkeletonId) # 0
    /\ ~CurrentAttach.assigned

\* the root of a secondary skeleton without node is about to be read
C28_RootReadWithoutNode ==
    /\ BoneNodeWillBeRead
    /\ CurrentBone.ParentIndex = INDEX_NONE
    /\ FirstNodeFor(SkeletalNodes, CurrentSkeletonId) = 0

--------------------------------------------------------------------------
(* C29 *)

EmittedBoneNames(Sk) == {Sk.Bones[i].Name : i \in DOMAIN Sk.Bones}

SocketBoneNames(Sk) == {Sk.Sockets[i].BoneName : i \in DOMAIN Sk.Sockets}

VirtualBoneEnds(Sk) ==
    {Sk.VirtualBones[i].SourceBoneName : i \in DOMAIN Sk.VirtualBones}
    \cup {Sk.VirtualBones[i].TargetBoneName : i \in DOMAIN Sk.VirtualBones}

ProfileEntryBoneNames(Sk) ==
    UNION {{Sk.BlendProfiles[i].ProfileEntries[j].BoneName :
               j \in DOMAIN Sk.BlendProfiles[i].ProfileEntries} :
           i \in DOMAIN Sk.BlendProfiles}

\* C29: in every returned skeleton the bone name of each merged socket, the
\* source and target bone names of each merged virtual bone and the bone name
\* of each retained blend profile entry are names of bones of the merged list.
C29_AncillaryNamesAreMergedBones ==
    (MergeReturned /\ ResultMesh.valid) =>
        /\ SocketBoneNames(ResultMesh) \subseteq EmittedBoneNames(ResultMesh)
        /\ VirtualBoneEnds(ResultMesh) \subseteq EmittedBoneNames(ResultMesh)
        /\ ProfileEntryBoneNames(ResultMesh) \subseteq EmittedBoneNames(ResultMesh)

\* what holds: no socket and no virtual bone of a returned skeleton names one
\* of its bones, and no blend profile entry is retained
C29_NoAncillaryNameIsAMergedBone ==
    (MergeReturned /\ ResultMesh.valid) =>
        /\ SocketBoneNames(ResultMesh) \cap EmittedBoneNames(ResultMesh) = {}
        /\ VirtualBoneEnds(ResultMesh) \cap EmittedBoneNames(ResultMesh) = {}
        /\ ProfileEntryBoneNames(ResultMesh) = {}

\* a returned skeleton with a socket and a virtual bone on bones it lacks
C29_DanglingSocketAndVirtualBone ==
    /\ MergeReturned /\ ResultMesh.valid
    /\ Params.bMergeSockets /\ Params.bMergeVirtualBones /\ Params.bMergeBlendProfiles
    /\ "Spine/1" \in EmittedBoneNames(ResultMesh)
    /\ "Spine" \in SocketBoneNames(ResultMesh)
    /\ "Spine" \in VirtualBoneEnds(ResultMesh)
    /\ ResultMesh.BlendProfiles # <<>>

--------------------------------------------------------------------------
(* C30 *)

\* MergeSkeletons has returned the skeleton that is handed to MergeMeshes as SkN
C30_MergedSkeletonProduced ==
    /\ MergeReturned /\ ResultMesh.valid
    /\ ToMergeSkeletons = <<SkeletonOfMesh["MeshA"], SkeletonOfMesh["MeshW"]>>
    /\ [i \in DOMAIN ResultMesh.Bones |->
           Bone(ResultMesh.Bones[i].Name, ResultMesh.Bones[i].ParentIndex)]
           = MergedTargetSkeleton.Bones
    /\ [i \in DOMAIN ResultMesh.Bones |-> ResultMesh.Bones[i].Pose]
           = MergedTargetSkeleton.BonePoses

\* the meshes handed to MergeMeshes without the null ones
GivenMeshes == SelectSeq(MeshesToMerge, LAMBDA m : m # NullPtr)

\* MergeMeshes is called with bSkeletonBefore and the skeleton MergeSkeletons
\* makes of the skeletons of the meshes, MeshA first
MergeMeshesOnMergedSkeleton ==
    /\ entry = "SaveMergeMeshes" /\ PathIsValid
    /\ MeshParams = [Skeleton |-> "SkN", bSkeletonBefore |-> TRUE]
    /\ Len(GivenMeshes) >= 2
    /\ GivenMeshes[1] = "MeshA"
    /\ \E i \in 2..Len(GivenMeshes) : GivenMeshes[i] = "MeshW"

\* the bones of the meshes after the first whose skeleton is not the first's
SecondaryBoneNames ==
    UNION {{SourceAssets[GivenMeshes[i]].RefBones[b].Name :
               b \in DOMAIN SourceAssets[GivenMeshes[i]].RefBones} :
           i \in {j \in 2..Len(GivenMeshes) :
                     SkeletonOfMesh[GivenMeshes[j]] # SkeletonOfMesh[GivenMeshes[1]]}}

TimesInRefSkeleton(Mesh, Name) ==
    Cardinality({i \in DOMAIN Mesh.RefBones : Mesh.RefBones[i].Name = Name})

\* C30: when MergeMeshes runs with bSkeletonBefore on the skeleton that
\* MergeSkeletons produced from the skeletons of the same meshes, every bone
\* of every secondary mesh is found by name in that skeleton, the call does
\* not end in an invalid index lookup, and the bones of each distinct
\* secondary skeleton are appended to the first mesh's reference skeleton
\* exactly once.
C30_SecondaryBonesFoundAndAppendedOnce ==
    (MergeMeshesOnMergedSkeleton /\ pc \notin {"SaveEntry", "MergeMeshes"}) =>
        /\ \A Name \in SecondaryBoneNames :
               FindBoneIndex(SourceAssets[MeshParams.Skeleton].Bones, Name) # INDEX_NONE
        /\ pc # "Crashed"
        /\ \A Name \in SecondaryBoneNames :
               TimesInRefSkeleton(Assets["CopyMesh"], Name) = 1

\* what holds: no bone of a secondary mesh is found in the merged skeleton
C30_NoSecondaryBoneFound ==
    MergeMeshesOnMergedSkeleton =>
        \A Name \in SecondaryBoneNames :
            FindBoneIndex(SourceAssets[MeshParams.Skeleton].Bones, Name) = INDEX_NONE

\* the call ended at the range check of the pose read (line 1166)
C30_EndedInInvalidLookup == MergeMeshesOnMergedSkeleton /\ pc = "Crashed"

====
